---- MODULE Spec2Model ----
(***************************************************************************)
(* Model of the homomorphic ciphertext evaluator                           *)
(* (native/src/seal/evaluator.cpp).                                        *)
(*                                                                         *)
(* Spec      : the evaluator as a state machine over one caller-owned      *)
(*             ciphertext `ct`.  Second operands, plaintexts, keys and     *)
(*             destination objects are arguments of a call, drawn from     *)
(*             small sets; `out` is the destination object of the call     *)
(*             just made and `last` the record of that call.  Polynomial   *)
(*             contents are abstracted to a content stamp that every       *)
(*             write to the buffer changes; size, parms_id, NTT flag and   *)
(*             scale are exact.                                            *)
(* SpecArith : negate / add / sub over two caller-owned ciphertexts with   *)
(*             concrete RNS polynomial data (variable `ar`).               *)
(* SpecMany  : add_many, multiply_many and exponentiate_inplace, one call  *)
(*             per step on a vector of inputs (variable `many`).           *)
(* SpecGalois: apply_galois_inplace and rotate_internal on one ciphertext  *)
(*             whose applied automorphism is followed (variable `gal`).    *)
(* SpecNtt   : the two NTT transforms of a ciphertext, following for each  *)
(*             RNS component the tables it went through (variable `nt`).   *)
(* SpecThreads: two threads, each running one evaluator operation on its   *)
(*             own ciphertext, step by step through the accesses they make *)
(*             to what they share (variable `thr`).                        *)
(* SpecLoops : the loops of mod_switch_to_inplace, rescale_to_inplace,     *)
(*             multiply_many and rotate_internal, one iteration per step   *)
(*             (variable `lp`); FairLoops adds that a running call keeps   *)
(*             being executed.                                             *)
(* SpecRelin : relinearize_internal, one key switch per step, with the     *)
(*             polynomial each key switch is given (variable `rl`).        *)
(* SpecGaloisSteps : apply_galois_inplace statement by statement, with the *)
(*             contents of c_0, c_1 and the scratch buffer (variable `gs`).*)
(* SpecPlain : multiply_plain_normal on one ciphertext polynomial with     *)
(*             concrete residues, monomial and generic path (variable      *)
(*             `mp`).                                                      *)
(* SpecConv  : the dyadic products of bfv_multiply and ckks_multiply, one  *)
(*             product per step, with the indices each reads and writes    *)
(*             (variable `cv`).                                            *)
(* SpecSquare: bfv_square / ckks_square on concrete residues, next to the  *)
(*             general convolution (variable `sq`).                        *)
(* SpecKeySwitch : the accumulation loop of switch_key_inplace for one     *)
(*             output prime and one accumulator slot, one decomposition    *)
(*             prime per step, on scaled-down word widths (variable `ks`). *)
(* SpecDecompose : the RNS decomposition of the lifted plaintext in        *)
(*             multiply_plain_normal and transform_to_ntt_inplace(plain),  *)
(*             one decompose_array call per step, with the words of the    *)
(*             scratch buffer each call addresses (variable `da`).         *)
(* SpecTree  : the two loops of multiply_many, one iteration per step, on  *)
(*             a vector holding for every element the number of multiply   *)
(*             steps below it (variable `tr`).                             *)
(***************************************************************************)
EXTENDS Integers, Sequences, FiniteSets, TLC

VARIABLES scheme, ct, out, last, ar, many, gal, nt, thr, lp, rl, gs, mp, cv, sq, ks, da, tr

vars == <<scheme, ct, out, last, ar, many, gal, nt, thr, lp, rl, gs, mp, cv, sq, ks, da, tr>>

(***************************************************************************)
(* Bounds of the model                                                     *)
(***************************************************************************)
\* largest ciphertext size the model lets an operation produce
MaxSize == 4
\* largest denominator of a scale the model follows
MaxDen == 300
\* exponent of the largest finite double, scaled to the model's bit counts
DblMaxExp == 14
\* number of distinct content stamps
DataVersions == 2
\* longest operation history followed in SpecArith
MaxHist == 2
\* poly_modulus_degree of the parameters used in SpecArith
CoeffCount == 2

(***************************************************************************)
(* Small arithmetic helpers                                                *)
(***************************************************************************)
Abs(x) == IF x < 0 THEN -x ELSE x

Sign(x) == IF x < 0 THEN -1 ELSE IF x = 0 THEN 0 ELSE 1

Max(a, b) == IF a > b THEN a ELSE b

Min(a, b) == IF a < b THEN a ELSE b

RECURSIVE Pow2(_)
Pow2(n) == IF n = 0 THEN 1 ELSE 2 * Pow2(n - 1)

RECURSIVE BitLen(_)
BitLen(x) == IF x = 0 THEN 0 ELSE 1 + BitLen(x \div 2)

RECURSIVE SeqProduct(_)
SeqProduct(s) == IF s = <<>> THEN 1 ELSE Head(s) * SeqProduct(Tail(s))

(***************************************************************************)
(* Context: the modulus switching chain                                    *)
(***************************************************************************)
\* primes of the key parameter point; the last one is the special prime
key_modulus == <<5, 13, 17, 29>>

\* parms_id of each parameter point, leaf first; position - 1 is chain_index
chain == <<"last", "mid", "first", "key">>

key_parms_id == chain[Len(chain)]

first_parms_id == chain[Len(chain) - 1]

last_parms_id == chain[1]

\* sentinel parms_id that names no parameter point
parms_id_zero == "zero"

ParmsIds == {chain[i] : i \in 1..Len(chain)}

\* parameter points a ciphertext can live at (everything below the key level)
DataParmsIds == ParmsIds \ {key_parms_id}

PosOf(pid) == CHOOSE i \in 1..Len(chain) : chain[i] = pid

\* context_->get_context_data(pid) != nullptr
has_context_data(pid) == pid \in ParmsIds

chain_index(pid) == PosOf(pid) - 1

coeff_modulus(pid) == SubSeq(key_modulus, 1, PosOf(pid))

coeff_modulus_count(pid) == Len(coeff_modulus(pid))

total_coeff_modulus_bit_count(pid) == BitLen(SeqProduct(coeff_modulus(pid)))

\* context_data.next_context_data()->parms_id(), defined above the leaf
next_parms_id(pid) == chain[PosOf(pid) - 1]

(***************************************************************************)
(* Scales: doubles modelled as exact fractions num/den; den = 0 is +-inf   *)
(***************************************************************************)
Scale(n, d) == [num |-> n, den |-> d]

DblMax == Pow2(DblMaxExp)

IsInf(s) == s.den = 0

\* |n / d| is above the largest finite double
ExceedsDblMax(n, d) ==
    \/ Abs(n) \div d > DblMax
    \/ Abs(n) \div d = DblMax /\ Abs(n) % d # 0

\* double multiplication, overflowing to infinity above the largest double
ScaleMul(a, b) ==
    LET n == a.num * b.num
        d == a.den * b.den
    IN IF d = 0 \/ ExceedsDblMax(n, d) THEN Scale(Sign(n), 0) ELSE Scale(n, d)

\* double division by a prime
ScaleDiv(a, q) == IF a.den = 0 THEN a ELSE Scale(a.num, a.den * q)

\* util::are_close<double>(a, b); infinities are never close to anything
ScaleEq(a, b) == a.den # 0 /\ b.den # 0 /\ a.num * b.den = b.num * a.den

\* static_cast<int>(log2(s)) >= bits for s > 0.  Converting an infinite double
\* to int is undefined: ub is the answer the build happens to give.
log2_cast_geq(s, bits, ub) ==
    IF s.den = 0 THEN ub ELSE s.num >= Pow2(bits) * s.den

\* new_scale <= 0 || static_cast<int>(log2(new_scale)) >= bit_count
scale_out_of_bounds(s, bits, ub) == s.num <= 0 \/ log2_cast_geq(s, bits, ub)

\* the data-model bound: scale > 0 and log2(scale) < bit count
ScaleInBounds(s, bits) == s.num > 0 /\ s.den # 0 /\ s.num < Pow2(bits) * s.den

\* scales the model follows
ScaleTracked(s) == s.den <= MaxDen

(***************************************************************************)
(* Ciphertext objects                                                      *)
(***************************************************************************)
OK == "ok"

IA == "invalid_argument"

LE == "logic_error"

OOR == "out_of_range"

Ciphertext(sz, pid, ntt, sc, d) ==
    [size |-> sz, parms_id |-> pid,
     coeff_modulus_count |-> IF has_context_data(pid) THEN coeff_modulus_count(pid) ELSE 0,
     is_ntt_form |-> ntt, scale |-> sc, data |-> d]

\* a default-constructed ciphertext
EmptyCiphertext == Ciphertext(0, parms_id_zero, FALSE, Scale(1, 1), 0)

\* Ciphertext::resize(context, parms_id, size): shape only, contents kept
resize(c, pid, sz) ==
    [c EXCEPT !.size = sz, !.parms_id = pid,
              !.coeff_modulus_count = coeff_modulus_count(pid)]

\* the polynomial buffer of c is written
write(c) == [c EXCEPT !.data = (c.data + 1) % DataVersions]

\* is_metadata_valid_for(c, context_) && is_buffer_valid(c)
is_valid_for(c) ==
    /\ c.parms_id \in DataParmsIds
    /\ c.coeff_modulus_count = coeff_modulus_count(c.parms_id)
    /\ c.size >= 2

\* the form the scheme keeps its ciphertexts in
SchemeNttForm(sch) == sch = "CKKS"

\* result of a call: how it ended, the object it writes, the internal routine
\* it dispatched to, and the number of chain steps it applied
Res(o, c, i, n) == [outcome |-> o, c |-> c, impl |-> i, steps |-> n]

Raise(o, c) == Res(o, c, "none", 0)

Return(c) == Res(OK, c, "none", 0)

(***************************************************************************)
(* multiply_inplace, square_inplace                                        *)
(***************************************************************************)
multiply_dest_size_off_by_one(s1, s2) == s1 + s2

\* sub_safe(add_safe(encrypted1_size, encrypted2_size), size_t(1))
multiply_dest_size(s1, s2) == s1 + s2 - 1

bfv_multiply(e1, e2) ==
    IF e1.is_ntt_form \/ e2.is_ntt_form
    THEN Raise(IA, e1)
    ELSE Return(write(resize(e1, e1.parms_id, multiply_dest_size(e1.size, e2.size))))

ckks_multiply(e1, e2, ub) ==
    LET new_scale == ScaleMul(e1.scale, e2.scale)
    IN IF ~(e1.is_ntt_form /\ e2.is_ntt_form)
       THEN Raise(IA, e1)
       ELSE IF scale_out_of_bounds(new_scale, total_coeff_modulus_bit_count(e1.parms_id), ub)
            THEN Raise(IA, e1)
            ELSE Return([write(resize(e1, e1.parms_id,
                                      multiply_dest_size(e1.size, e2.size)))
                           EXCEPT !.scale = new_scale])

multiply_inplace(sch, e1, e2, ub) ==
    IF ~is_valid_for(e1) \/ ~is_valid_for(e2)
    THEN Raise(IA, e1)
    ELSE IF e1.parms_id # e2.parms_id
         THEN Raise(IA, e1)
         ELSE IF sch = "BFV" THEN bfv_multiply(e1, e2) ELSE ckks_multiply(e1, e2, ub)

\* size != 2 delegates to bfv_multiply(encrypted, encrypted)
bfv_square(e) ==
    IF e.is_ntt_form
    THEN Raise(IA, e)
    ELSE IF e.size # 2
         THEN bfv_multiply(e, e)
         ELSE Return(write(resize(e, e.parms_id, multiply_dest_size(e.size, e.size))))

ckks_square(e, ub) ==
    LET new_scale == ScaleMul(e.scale, e.scale)
    IN IF ~e.is_ntt_form
       THEN Raise(IA, e)
       ELSE IF e.size # 2
            THEN ckks_multiply(e, e, ub)
            ELSE IF scale_out_of_bounds(new_scale, total_coeff_modulus_bit_count(e.parms_id), ub)
                 THEN Raise(IA, e)
                 ELSE Return([write(resize(e, e.parms_id,
                                           multiply_dest_size(e.size, e.size)))
                                EXCEPT !.scale = new_scale])

square_inplace(sch, e, ub) ==
    IF ~is_valid_for(e)
    THEN Raise(IA, e)
    ELSE IF sch = "BFV" THEN bfv_square(e) ELSE ckks_square(e, ub)

(***************************************************************************)
(* Key switching and relinearization                                       *)
(***************************************************************************)
\* evaluation keys as the evaluator sees them: the parameter point they were
\* generated at, how many key entries they hold, and the index of an entry
\* that is not valid for the context (-1 when every entry is valid)
KSwitchKeys(pid, n, bad) == [parms_id |-> pid, size |-> n, bad |-> bad]

\* context_->using_keyswitching(): the chain has a special prime
using_keyswitching == Len(key_modulus) > 1

\* RelinKeys::get_index(key_power)
relin_get_index(key_power) == key_power - 2

\* the checks of switch_key_inplace, then the update of c_0 and c_1
switch_key_inplace(sch, e, keys, index) ==
    IF ~is_valid_for(e) THEN Raise(IA, e)
    ELSE IF ~using_keyswitching THEN Raise(LE, e)
    ELSE IF keys.parms_id # key_parms_id THEN Raise(IA, e)
    ELSE IF index >= keys.size THEN Raise(OOR, e)
    ELSE IF sch = "BFV" /\ e.is_ntt_form THEN Raise(IA, e)
    ELSE IF sch = "CKKS" /\ ~e.is_ntt_form THEN Raise(IA, e)
    ELSE IF keys.bad = index THEN Raise(IA, e)
    ELSE Return(write(e))

\* for (i = 0; i < relins_needed; i++) { switch_key_inplace(...); encrypted_size--; }
RECURSIVE relinearize_loop(_, _, _, _, _)
relinearize_loop(sch, e, keys, encrypted_size, relins_left) ==
    IF relins_left = 0
    THEN Return(e)
    ELSE LET r == switch_key_inplace(sch, e, keys, relin_get_index(encrypted_size - 1))
         IN IF r.outcome # OK
            THEN r
            ELSE relinearize_loop(sch, r.c, keys, encrypted_size - 1, relins_left - 1)

relinearize_final_size_keeps_one_more(encrypted_size, destination_size) ==
    IF destination_size < encrypted_size THEN destination_size + 1 ELSE destination_size

\* the size the ciphertext is resized down to after the last key switch
relinearize_final_size(encrypted_size, destination_size) == destination_size

relinearize_internal(sch, e, keys, destination_size) ==
    IF ~has_context_data(e.parms_id) THEN Raise(IA, e)
    ELSE IF keys.parms_id # key_parms_id THEN Raise(IA, e)
    ELSE IF destination_size < 2 \/ destination_size > e.size THEN Raise(IA, e)
    ELSE IF keys.size < e.size - 2 THEN Raise(IA, e)
    ELSE IF destination_size = e.size THEN Return(e)
    ELSE LET r == relinearize_loop(sch, e, keys, e.size, e.size - destination_size)
         IN IF r.outcome # OK
            THEN r
            ELSE Res(OK,
                     resize(r.c, e.parms_id,
                            relinearize_final_size(e.size, destination_size)),
                     "switch_key_inplace", e.size - destination_size)

(***************************************************************************)
(* Modulus switching and rescaling                                         *)
(***************************************************************************)
\* writes the divided-and-rounded copy of encrypted into destination
mod_switch_scale_to_next(sch, encrypted, destination) ==
    IF sch = "BFV" /\ encrypted.is_ntt_form THEN Raise(IA, destination)
    ELSE IF sch = "CKKS" /\ ~encrypted.is_ntt_form THEN Raise(IA, destination)
    ELSE LET next == next_parms_id(encrypted.parms_id)
             q_last == coeff_modulus(encrypted.parms_id)[Len(coeff_modulus(encrypted.parms_id))]
             d1 == [write(resize(destination, next, encrypted.size))
                      EXCEPT !.is_ntt_form = encrypted.is_ntt_form]
             d2 == IF sch = "CKKS"
                   THEN [d1 EXCEPT !.scale = ScaleDiv(encrypted.scale, q_last)]
                   ELSE d1
         IN Res(OK, d2, "mod_switch_scale_to_next", 1)

drop_sets_ntt_form_cleared == FALSE

\* destination.is_ntt_form() = true
drop_sets_ntt_form == TRUE

drop_next_parms_id_skips_a_point(pid) == chain[Max(1, PosOf(pid) - 2)]

\* next_context_data.parms_id() as the drop variant reads it
drop_next_parms_id(pid) == next_parms_id(pid)

\* copies the first k - 1 RNS components of encrypted into destination
mod_switch_drop_to_next(sch, encrypted, destination, ub) ==
    IF sch = "CKKS" /\ ~encrypted.is_ntt_form THEN Raise(IA, destination)
    ELSE LET next == drop_next_parms_id(encrypted.parms_id)
         IN IF scale_out_of_bounds(encrypted.scale,
                                   total_coeff_modulus_bit_count(next), ub)
            THEN Raise(IA, destination)
            ELSE Res(OK,
                     [write(resize(destination, next, encrypted.size))
                        EXCEPT !.is_ntt_form = drop_sets_ntt_form,
                               !.scale = encrypted.scale],
                     "mod_switch_drop_to_next", 1)

mod_switch_variant_swapped(sch) == IF sch = "BFV" THEN "drop" ELSE "scale"

\* switch (scheme) in mod_switch_to_next
mod_switch_variant(sch) == IF sch = "BFV" THEN "scale" ELSE "drop"

\* context_->last_parms_id() == encrypted.parms_id()
at_chain_end(pid) == pid = last_parms_id

mod_switch_to_next(sch, encrypted, destination, ub) ==
    IF ~is_valid_for(encrypted) THEN Raise(IA, destination)
    ELSE IF at_chain_end(encrypted.parms_id) THEN Raise(IA, destination)
    ELSE IF mod_switch_variant(sch) = "scale"
         THEN mod_switch_scale_to_next(sch, encrypted, destination)
         ELSE mod_switch_drop_to_next(sch, encrypted, destination, ub)

rescale_to_next(sch, encrypted, destination) ==
    IF ~is_valid_for(encrypted) THEN Raise(IA, destination)
    ELSE IF at_chain_end(encrypted.parms_id) THEN Raise(IA, destination)
    ELSE IF sch = "BFV" THEN Raise(IA, destination)
    ELSE mod_switch_scale_to_next(sch, encrypted, destination)

switch_target_above_ignored(cur, target) == FALSE

\* context_data_ptr->chain_index() < target_context_data_ptr->chain_index()
switch_target_above(cur, target) == chain_index(cur) < chain_index(target)

\* while (encrypted.parms_id() != parms_id) mod_switch_to_next_inplace(encrypted)
RECURSIVE mod_switch_walk(_, _, _, _, _)
mod_switch_walk(sch, e, target, ub, n) ==
    IF e.parms_id = target
    THEN Res(OK, e, "none", n)
    ELSE LET r == mod_switch_to_next(sch, e, e, ub)
         IN IF r.outcome # OK
            THEN Res(r.outcome, r.c, r.impl, n)
            ELSE mod_switch_walk(sch, r.c, target, ub, n + 1)

mod_switch_to_inplace(sch, e, target, ub) ==
    IF ~has_context_data(e.parms_id) THEN Raise(IA, e)
    ELSE IF ~has_context_data(target) THEN Raise(IA, e)
    ELSE IF switch_target_above(e.parms_id, target) THEN Raise(IA, e)
    ELSE mod_switch_walk(sch, e, target, ub, 0)

\* context_data_ptr->chain_index() < target_context_data_ptr->chain_index()
rescale_target_above(cur, target) == chain_index(cur) < chain_index(target)

\* while (encrypted.parms_id() != parms_id) mod_switch_scale_to_next(encrypted, encrypted)
RECURSIVE rescale_walk(_, _, _, _)
rescale_walk(sch, e, target, n) ==
    IF e.parms_id = target
    THEN Res(OK, e, "none", n)
    ELSE LET r == mod_switch_scale_to_next(sch, e, e)
         IN IF r.outcome # OK
            THEN Res(r.outcome, r.c, r.impl, n)
            ELSE rescale_walk(sch, r.c, target, n + 1)

rescale_to_inplace(sch, e, target) ==
    IF ~is_valid_for(e) THEN Raise(IA, e)
    ELSE IF ~has_context_data(target) THEN Raise(IA, e)
    ELSE IF rescale_target_above(e.parms_id, target) THEN Raise(IA, e)
    ELSE IF sch = "BFV" THEN Raise(IA, e)
    ELSE rescale_walk(sch, e, target, 0)

(***************************************************************************)
(* negate, add, sub on the shape of the ciphertext                         *)
(***************************************************************************)
negate_inplace(e) ==
    IF ~is_valid_for(e) THEN Raise(IA, e) ELSE Return(write(e))

\* the argument checks shared by add_inplace and sub_inplace
add_args_rejected(e1, e2) ==
    \/ ~is_valid_for(e1)
    \/ ~is_valid_for(e2)
    \/ e1.parms_id # e2.parms_id
    \/ e1.is_ntt_form # e2.is_ntt_form
    \/ ~ScaleEq(e1.scale, e2.scale)

add_inplace(e1, e2) ==
    IF add_args_rejected(e1, e2)
    THEN Raise(IA, e1)
    ELSE Return(write(resize(e1, e1.parms_id, Max(e1.size, e2.size))))

sub_inplace(e1, e2) ==
    IF add_args_rejected(e1, e2)
    THEN Raise(IA, e1)
    ELSE Return(write(resize(e1, e1.parms_id, Max(e1.size, e2.size))))

(***************************************************************************)
(* Plaintext operands                                                      *)
(***************************************************************************)
Plaintext(pid, ntt, sc) == [parms_id |-> pid, is_ntt_form |-> ntt, scale |-> sc]

\* is_metadata_valid_for(plain, context_) && is_buffer_valid(plain): an NTT
\* plaintext names a parameter point, a coefficient plaintext needs BFV
plain_is_valid_for(sch, plain) ==
    IF plain.is_ntt_form
    THEN has_context_data(plain.parms_id)
    ELSE sch = "BFV" /\ plain.parms_id = parms_id_zero

add_plain_inplace(sch, e, plain) ==
    IF ~is_valid_for(e) \/ ~plain_is_valid_for(sch, plain) THEN Raise(IA, e)
    ELSE IF sch = "BFV" /\ e.is_ntt_form THEN Raise(IA, e)
    ELSE IF sch = "CKKS" /\ ~e.is_ntt_form THEN Raise(IA, e)
    ELSE IF plain.is_ntt_form # e.is_ntt_form THEN Raise(IA, e)
    ELSE IF e.is_ntt_form /\ e.parms_id # plain.parms_id THEN Raise(IA, e)
    ELSE IF ~ScaleEq(e.scale, plain.scale) THEN Raise(IA, e)
    ELSE Return(write(e))

sub_plain_inplace(sch, e, plain) ==
    IF ~is_valid_for(e) \/ ~plain_is_valid_for(sch, plain) THEN Raise(IA, e)
    ELSE IF sch = "BFV" /\ e.is_ntt_form THEN Raise(IA, e)
    ELSE IF sch = "CKKS" /\ ~e.is_ntt_form THEN Raise(IA, e)
    ELSE IF plain.is_ntt_form # e.is_ntt_form THEN Raise(IA, e)
    ELSE IF e.is_ntt_form /\ e.parms_id # plain.parms_id THEN Raise(IA, e)
    ELSE IF ~ScaleEq(e.scale, plain.scale) THEN Raise(IA, e)
    ELSE Return(write(e))

multiply_plain_normal(e, plain, ub) ==
    LET new_scale == ScaleMul(e.scale, plain.scale)
    IN IF scale_out_of_bounds(new_scale, total_coeff_modulus_bit_count(e.parms_id), ub)
       THEN Raise(IA, e)
       ELSE Return(write([e EXCEPT !.scale = new_scale]))

multiply_plain_ntt(e, plain, ub) ==
    LET new_scale == ScaleMul(e.scale, plain.scale)
    IN IF ~plain.is_ntt_form THEN Raise(IA, e)
       ELSE IF e.parms_id # plain.parms_id THEN Raise(IA, e)
       ELSE IF scale_out_of_bounds(new_scale, total_coeff_modulus_bit_count(e.parms_id), ub)
            THEN Raise(IA, e)
            ELSE Return([write(e) EXCEPT !.scale = new_scale])

multiply_plain_inplace(sch, e, plain, ub) ==
    IF ~is_valid_for(e) \/ ~plain_is_valid_for(sch, plain) THEN Raise(IA, e)
    ELSE IF e.is_ntt_form # plain.is_ntt_form THEN Raise(IA, e)
    ELSE IF e.is_ntt_form
         THEN multiply_plain_ntt(e, plain, ub)
         ELSE multiply_plain_normal(e, plain, ub)

(***************************************************************************)
(* NTT transforms of a ciphertext                                          *)
(***************************************************************************)
transform_to_ntt_inplace(e) ==
    IF ~is_valid_for(e) THEN Raise(IA, e)
    ELSE IF e.is_ntt_form THEN Raise(IA, e)
    ELSE Return([write(e) EXCEPT !.is_ntt_form = TRUE])

transform_from_ntt_inplace(e) ==
    IF ~is_valid_for(e) THEN Raise(IA, e)
    ELSE IF ~e.is_ntt_form THEN Raise(IA, e)
    ELSE Return([write(e) EXCEPT !.is_ntt_form = FALSE])

(***************************************************************************)
(* The evaluator as a state machine                                        *)
(***************************************************************************)
Schemes == {"BFV", "CKKS"}

\* scale of a freshly encoded and encrypted value
InitialScale(sch) == IF sch = "CKKS" THEN Scale(5, 1) ELSE Scale(1, 1)

NoKeys == KSwitchKeys(parms_id_zero, 0, -1)

NoPlain == Plaintext(parms_id_zero, FALSE, Scale(1, 1))

\* the record of a call: which operation, with which arguments, how it ended
NoCall ==
    [op |-> "none", outcome |-> OK, impl |-> "none", steps |-> 0,
     alias |-> FALSE, arg |-> EmptyCiphertext, plain |-> NoPlain,
     target |-> parms_id_zero, inplace |-> TRUE, dest |-> EmptyCiphertext,
     d |-> 0, keys |-> NoKeys, ub |-> FALSE]

NoArith == [op |-> "none"]

NoMany == [op |-> "none"]

NoGalois == [op |-> "none"]

NoTree == [op |-> "none"]

NoDecompose == [op |-> "none"]

NoKeySwitch == [op |-> "none"]

NoSquare == [op |-> "none"]

NoConvolution == [op |-> "none"]

NoPlainMul == [op |-> "none"]

NoGaloisSteps == [op |-> "none"]

NoRelin == [op |-> "none"]

NoLoop == [op |-> "none"]

NoThreads == [op |-> "none"]

NoTransform == [op |-> "none"]

\* second operands a caller may pass next to c
OperandSizes == {2, 3}

\* a scale no encoder produces but the setter accepts
NegativeScale == Scale(-2, 1)

OtherParmsId(pid) == IF pid = first_parms_id THEN last_parms_id ELSE first_parms_id

Operands(sch, c) ==
    {Ciphertext(sz, c.parms_id, c.is_ntt_form, sc, 0) :
        sz \in OperandSizes, sc \in {InitialScale(sch), c.scale}}
    \cup {Ciphertext(2, c.parms_id, c.is_ntt_form, NegativeScale, 0),
          Ciphertext(2, OtherParmsId(c.parms_id), c.is_ntt_form, c.scale, 0),
          Ciphertext(2, c.parms_id, ~c.is_ntt_form, c.scale, 0),
          EmptyCiphertext}

PlainInputs(sch, c) ==
    {Plaintext(pid, TRUE, sc) :
        pid \in {c.parms_id, OtherParmsId(c.parms_id)},
        sc \in {InitialScale(sch), c.scale}}
    \cup {Plaintext(parms_id_zero, FALSE, InitialScale(sch))}

KeyInputs ==
    {KSwitchKeys(key_parms_id, n, -1) : n \in {0, MaxSize - 2}}
    \cup {KSwitchKeys(first_parms_id, MaxSize - 2, -1),
          KSwitchKeys(key_parms_id, MaxSize - 2, 0)}

DestinationSizes(c) == {1, 2, c.size - 1, c.size, c.size + 1}

DestInputs(sch) ==
    {EmptyCiphertext,
     Ciphertext(2, last_parms_id, SchemeNttForm(sch), InitialScale(sch), 0),
     Ciphertext(3, first_parms_id, ~SchemeNttForm(sch), InitialScale(sch), 1)}

TargetInputs == ParmsIds \cup {parms_id_zero}

\* the answers an undefined double-to-int conversion can give
UbChoices(s) == IF IsInf(s) THEN BOOLEAN ELSE {FALSE}

\* ciphertexts the model follows
Followed(c) == c.size <= MaxSize /\ ScaleTracked(c.scale)

Init ==
    /\ scheme \in Schemes
    /\ \E sz \in OperandSizes, pid \in DataParmsIds :
          ct = Ciphertext(sz, pid, SchemeNttForm(scheme), InitialScale(scheme), 0)
    /\ out = EmptyCiphertext
    /\ last = NoCall
    /\ tr = NoTree
    /\ da = NoDecompose
    /\ ks = NoKeySwitch
    /\ sq = NoSquare
    /\ cv = NoConvolution
    /\ mp = NoPlainMul
    /\ gs = NoGaloisSteps
    /\ rl = NoRelin
    /\ lp = NoLoop
    /\ thr = NoThreads
    /\ nt = NoTransform
    /\ ar = NoArith
    /\ many = NoMany
    /\ gal = NoGalois

\* a call that works on c in place ended with result r
InPlace(r, info) ==
    /\ Followed(r.c)
    /\ ct' = r.c
    /\ out' = EmptyCiphertext
    /\ last' = [info EXCEPT !.outcome = r.outcome, !.impl = r.impl, !.steps = r.steps]
    /\ UNCHANGED <<scheme, ar, many, gal, nt, thr, lp, rl, gs, mp, cv, sq, ks, da, tr>>

\* a call that reads c and writes a separate destination ended with result r
IntoDestination(r, info) ==
    /\ Followed(r.c)
    /\ ct' = ct
    /\ out' = r.c
    /\ last' = [info EXCEPT !.outcome = r.outcome, !.impl = r.impl, !.steps = r.steps,
                            !.inplace = FALSE]
    /\ UNCHANGED <<scheme, ar, many, gal, nt, thr, lp, rl, gs, mp, cv, sq, ks, da, tr>>

NegateInplace ==
    InPlace(negate_inplace(ct), [NoCall EXCEPT !.op = "negate_inplace"])

AddInplace ==
    \E e2 \in Operands(scheme, ct) \cup {ct} :
        InPlace(add_inplace(ct, e2),
                [NoCall EXCEPT !.op = "add_inplace", !.arg = e2, !.alias = (e2 = ct)])

SubInplace ==
    \E e2 \in Operands(scheme, ct) \cup {ct} :
        InPlace(sub_inplace(ct, e2),
                [NoCall EXCEPT !.op = "sub_inplace", !.arg = e2, !.alias = (e2 = ct)])

MultiplyInplace ==
    \E e2 \in Operands(scheme, ct) \cup {ct} :
        \E ub \in UbChoices(ScaleMul(ct.scale, e2.scale)) :
            InPlace(multiply_inplace(scheme, ct, e2, ub),
                    [NoCall EXCEPT !.op = "multiply_inplace", !.arg = e2,
                                   !.alias = (e2 = ct), !.ub = ub])

SquareInplace ==
    \E ub \in UbChoices(ScaleMul(ct.scale, ct.scale)) :
        InPlace(square_inplace(scheme, ct, ub),
                [NoCall EXCEPT !.op = "square_inplace", !.arg = ct, !.alias = TRUE,
                               !.ub = ub])

RelinearizeInternal ==
    \E keys \in KeyInputs, d \in DestinationSizes(ct) :
        InPlace(relinearize_internal(scheme, ct, keys, d),
                [NoCall EXCEPT !.op = "relinearize_internal", !.keys = keys, !.d = d])

\* mod_switch_to_next_inplace(c) is mod_switch_to_next(c, c)
ModSwitchToNextInplace ==
    \E ub \in UbChoices(ct.scale) :
        InPlace(mod_switch_to_next(scheme, ct, ct, ub),
                [NoCall EXCEPT !.op = "mod_switch_to_next", !.ub = ub])

ModSwitchToNext ==
    \E dst \in DestInputs(scheme), ub \in UbChoices(ct.scale) :
        IntoDestination(mod_switch_to_next(scheme, ct, dst, ub),
                        [NoCall EXCEPT !.op = "mod_switch_to_next", !.dest = dst,
                                       !.ub = ub])

ModSwitchToInplace ==
    \E pid \in TargetInputs, ub \in UbChoices(ct.scale) :
        InPlace(mod_switch_to_inplace(scheme, ct, pid, ub),
                [NoCall EXCEPT !.op = "mod_switch_to_inplace", !.target = pid,
                               !.ub = ub])

\* rescale_to_next_inplace(c) is rescale_to_next(c, c)
RescaleToNextInplace ==
    InPlace(rescale_to_next(scheme, ct, ct),
            [NoCall EXCEPT !.op = "rescale_to_next"])

RescaleToNext ==
    \E dst \in DestInputs(scheme) :
        IntoDestination(rescale_to_next(scheme, ct, dst),
                        [NoCall EXCEPT !.op = "rescale_to_next", !.dest = dst])

RescaleToInplace ==
    \E pid \in TargetInputs :
        InPlace(rescale_to_inplace(scheme, ct, pid),
                [NoCall EXCEPT !.op = "rescale_to_inplace", !.target = pid])

AddPlainInplace ==
    \E plain \in PlainInputs(scheme, ct) :
        InPlace(add_plain_inplace(scheme, ct, plain),
                [NoCall EXCEPT !.op = "add_plain_inplace", !.plain = plain])

SubPlainInplace ==
    \E plain \in PlainInputs(scheme, ct) :
        InPlace(sub_plain_inplace(scheme, ct, plain),
                [NoCall EXCEPT !.op = "sub_plain_inplace", !.plain = plain])

MultiplyPlainInplace ==
    \E plain \in PlainInputs(scheme, ct) :
        \E ub \in UbChoices(ScaleMul(ct.scale, plain.scale)) :
            InPlace(multiply_plain_inplace(scheme, ct, plain, ub),
                    [NoCall EXCEPT !.op = "multiply_plain_inplace", !.plain = plain,
                                   !.ub = ub])

TransformToNttInplace ==
    InPlace(transform_to_ntt_inplace(ct),
            [NoCall EXCEPT !.op = "transform_to_ntt_inplace"])

TransformFromNttInplace ==
    InPlace(transform_from_ntt_inplace(ct),
            [NoCall EXCEPT !.op = "transform_from_ntt_inplace"])

Next ==
    \/ NegateInplace
    \/ AddInplace
    \/ SubInplace
    \/ MultiplyInplace
    \/ SquareInplace
    \/ RelinearizeInternal
    \/ ModSwitchToNextInplace
    \/ ModSwitchToNext
    \/ ModSwitchToInplace
    \/ RescaleToNextInplace
    \/ RescaleToNext
    \/ RescaleToInplace
    \/ AddPlainInplace
    \/ SubPlainInplace
    \/ MultiplyPlainInplace
    \/ TransformToNttInplace
    \/ TransformFromNttInplace

Spec == Init /\ [][Next]_vars

TypeOK ==
    /\ scheme \in Schemes
    /\ ct.size \in 0..MaxSize
    /\ last.outcome \in {OK, IA, LE, OOR}

(***************************************************************************)
(* Properties                                                              *)
(***************************************************************************)
\* the ciphertext the call of this step wrote its result to
Result == IF last.inplace THEN ct ELSE out

Succeeded(op) == last.op = op /\ last.outcome = OK

\* C1: every successful multiply_inplace(c1, c2), under BFV or CKKS and also
\* when c2 is c1 itself, leaves c1 with size s1 + s2 - 1 at the operands'
\* parms_id.
C1_MultiplySizeLaw ==
    [][(last'.op = "multiply_inplace" /\ last'.outcome = OK)
        => /\ ct'.size = ct.size + last'.arg.size - 1
           /\ ct'.parms_id = ct.parms_id
           /\ ct'.parms_id = last'.arg.parms_id]_vars

C1_Witness ==
    /\ Succeeded("multiply_inplace")
    /\ last.alias
    /\ last.arg.size = 2
    /\ ct.size = 3

\* C2: relinearize_internal(c, keys, d) on size s: a normal return with
\* 2 <= d <= s and keys.size >= s - 2 leaves c.size = d, and d = s leaves c
\* untouched; d < 2, d > s or keys.size < s - 2 raise invalid-argument with c
\* not modified.
C2_RelinearizeSize ==
    [][last'.op = "relinearize_internal"
        => /\ (/\ 2 <= last'.d
               /\ last'.d <= ct.size
               /\ last'.keys.size >= ct.size - 2
               /\ last'.outcome = OK)
              => /\ ct'.size = last'.d
                 /\ (last'.d = ct.size => ct' = ct)
           /\ (\/ last'.d < 2
               \/ last'.d > ct.size
               \/ last'.keys.size < ct.size - 2)
              => /\ last'.outcome = IA
                 /\ ct' = ct]_vars

C2_Witness ==
    /\ Succeeded("relinearize_internal")
    /\ last.steps = 2
    /\ last.d = 2
    /\ ct.size = 2

\* C3 as stated: every ciphertext keeps size >= 2 and the form of its scheme
\* (coefficient form under BFV, NTT form under CKKS) after any sequence of
\* successful operations, the NTT transforms included.
C3_SchemeFormAlways ==
    /\ ct.size >= 2
    /\ ct.is_ntt_form = SchemeNttForm(scheme)
    /\ (last.outcome = OK /\ ~last.inplace)
          => (out.size >= 2 /\ out.is_ntt_form = SchemeNttForm(scheme))

\* the form a successful call leaves its result in, given the form of c
FormAfter(op, ntt) ==
    IF op = "transform_to_ntt_inplace" THEN TRUE
    ELSE IF op = "transform_from_ntt_inplace" THEN FALSE
    ELSE ntt

\* C3: every ciphertext keeps size >= 2; is_ntt_form is changed by the two
\* transforms only, under either scheme: transform_to_ntt_inplace takes a
\* coefficient-form ciphertext to NTT form, transform_from_ntt_inplace the
\* other way, and the result of every other successful operation has the form
\* of the ciphertext it was applied to.
C3_FormChangesOnlyByTransform ==
    /\ [](ct.size >= 2 /\ (last.outcome = OK /\ ~last.inplace => out.size >= 2))
    /\ [][last'.outcome = OK
            => /\ Result'.is_ntt_form = FormAfter(last'.op, ct.is_ntt_form)
               /\ last'.op = "transform_to_ntt_inplace" => ~ct.is_ntt_form
               /\ last'.op = "transform_from_ntt_inplace" => ct.is_ntt_form]_vars

C3_Witness ==
    /\ scheme = "BFV"
    /\ Succeeded("multiply_plain_inplace")
    /\ ct.is_ntt_form
    /\ ct.size >= 2

\* C4: no step raises the chain_index of the ciphertext; a successful
\* mod_switch_to_next leaves its result exactly one parameter point down, with
\* one prime fewer; at the last parameter point mod_switch_to_next raises
\* invalid-argument and changes neither source nor destination.
C4_ChainMonotone ==
    [][/\ chain_index(ct'.parms_id) <= chain_index(ct.parms_id)
       /\ last'.outcome = OK
            => chain_index(Result'.parms_id) <= chain_index(ct.parms_id)
       /\ (last'.op = "mod_switch_to_next" /\ last'.outcome = OK)
            => /\ chain_index(Result'.parms_id) = chain_index(ct.parms_id) - 1
               /\ Result'.coeff_modulus_count = ct.coeff_modulus_count - 1
               /\ Result'.coeff_modulus_count = coeff_modulus_count(Result'.parms_id)
       /\ (last'.op = "mod_switch_to_next" /\ ct.parms_id = last_parms_id)
            => /\ last'.outcome = IA
               /\ ct' = ct
               /\ ~last'.inplace => out' = last'.dest]_vars

C4_Witness ==
    /\ scheme = "CKKS"
    /\ Succeeded("mod_switch_to_next")
    /\ ~last.inplace
    /\ last.dest.parms_id = last_parms_id
    /\ ct.parms_id = first_parms_id
    /\ out.parms_id = next_parms_id(first_parms_id)

\* C5: mod_switch_to_inplace(c, pid) and rescale_to_inplace(c, pid) raise
\* invalid-argument and leave c as it was when pid is unknown to the context
\* or names a point with a higher chain_index than c's; when they return
\* normally c.parms_id = pid and the number of single steps applied is the
\* difference of the chain indices.
C5_SwitchToTarget ==
    [][last'.op \in {"mod_switch_to_inplace", "rescale_to_inplace"}
        => /\ (IF has_context_data(last'.target)
               THEN chain_index(last'.target) > chain_index(ct.parms_id)
               ELSE TRUE)
              => (last'.outcome = IA /\ ct' = ct)
           /\ last'.outcome = OK
              => /\ ct'.parms_id = last'.target
                 /\ last'.steps = chain_index(ct.parms_id) - chain_index(ct'.parms_id)]_vars

C5_Witness ==
    /\ Succeeded("mod_switch_to_inplace")
    /\ last.steps = 2
    /\ last.target = last_parms_id
    /\ ct.parms_id = last_parms_id

\* the prime a chain step from pid drops
DroppedPrime(pid) == coeff_modulus(pid)[coeff_modulus_count(pid)]

\* b is a divided by the prime q, in exact arithmetic
IsQuotient(b, a, q) ==
    IF IsInf(a) THEN b = a ELSE b.den # 0 /\ b.num * a.den * q = a.num * b.den

\* C6: under CKKS mod_switch_to_next runs the drop variant and keeps the
\* scale, and rescale_to_next runs the scale variant and divides the scale by
\* the dropped last prime; under BFV mod_switch_to_next runs the scale
\* variant and rescale_to_next always raises invalid-argument.
C6_SchemeDispatch ==
    [][/\ (scheme = "CKKS" /\ last'.op = "mod_switch_to_next" /\ last'.outcome = OK)
            => /\ last'.impl = "mod_switch_drop_to_next"
               /\ Result'.scale = ct.scale
       /\ (scheme = "CKKS" /\ last'.op = "rescale_to_next" /\ last'.outcome = OK)
            => /\ last'.impl = "mod_switch_scale_to_next"
               /\ IsQuotient(Result'.scale, ct.scale, DroppedPrime(ct.parms_id))
       /\ (scheme = "BFV" /\ last'.op = "mod_switch_to_next" /\ last'.outcome = OK)
            => last'.impl = "mod_switch_scale_to_next"
       /\ (scheme = "BFV" /\ last'.op = "rescale_to_next")
            => last'.outcome = IA]_vars

C6_Witness ==
    /\ scheme = "CKKS"
    /\ Succeeded("rescale_to_next")
    /\ last.impl = "mod_switch_scale_to_next"
    /\ ~last.inplace
    /\ ct.parms_id = first_parms_id
    /\ out.scale = Scale(5, 17)

\* C7 as stated: a CKKS multiply_inplace / square_inplace that succeeds sets
\* the scale to the product of the operands' scales; when that product is
\* <= 0 or its log2 is at least the total bit count of the parameter point,
\* the call raises invalid-argument and c1 is as it was before the call.
C7_ScaleProductChecked ==
    [][(/\ scheme = "CKKS"
        /\ last'.op \in {"multiply_inplace", "square_inplace"}
        /\ is_valid_for(last'.arg)
        /\ last'.arg.parms_id = ct.parms_id
        /\ ct.is_ntt_form /\ last'.arg.is_ntt_form)
        => LET product == ScaleMul(ct.scale, last'.arg.scale)
               bits == total_coeff_modulus_bit_count(ct.parms_id)
           IN /\ last'.outcome = OK => ct'.scale = product
              /\ ~ScaleInBounds(product, bits)
                   => (last'.outcome = IA /\ ct' = ct)]_vars

\* C8 as stated: along any history of successful multiply, square,
\* multiply_plain, mod_switch_to_next and rescale operations every CKKS
\* ciphertext has scale > 0 and log2(scale) below the bit length of the
\* product of its current primes.
C8_ScaleInBoundsAlways ==
    scheme = "CKKS"
        => /\ ScaleInBounds(ct.scale, total_coeff_modulus_bit_count(ct.parms_id))
           /\ (last.outcome = OK /\ ~last.inplace)
                => ScaleInBounds(out.scale, total_coeff_modulus_bit_count(out.parms_id))

(***************************************************************************)
(* SpecArith: negate, add, sub on RNS polynomial data                      *)
(*                                                                         *)
(* A polynomial of a ciphertext is polys[i][j][k]: polynomial i, RNS        *)
(* component j (prime q_j), coefficient k.                                  *)
(***************************************************************************)
\* util::add_poly_poly_coeffmod: operands below q, one conditional subtraction
add_poly_poly_coeffmod(a, b, q) ==
    [k \in 1..Len(a) |-> LET sum == a[k] + b[k]
                         IN IF sum >= q THEN sum - q ELSE sum]

\* util::sub_poly_poly_coeffmod: operands below q, q added back on borrow
sub_poly_poly_coeffmod(a, b, q) ==
    [k \in 1..Len(a) |-> LET diff == a[k] - b[k]
                         IN IF diff < 0 THEN diff + q ELSE diff]

\* util::negate_poly_coeffmod: q - x for x # 0, 0 for x = 0
negate_poly_coeffmod(a, q) ==
    [k \in 1..Len(a) |-> IF a[k] = 0 THEN 0 ELSE q - a[k]]

ZeroPoly(pid) ==
    [j \in 1..coeff_modulus_count(pid) |-> [k \in 1..CoeffCount |-> 0]]

RnsCiphertext(sz, pid, ntt, sc, polys) ==
    [size |-> sz, parms_id |-> pid,
     coeff_modulus_count |-> IF has_context_data(pid) THEN coeff_modulus_count(pid) ELSE 0,
     is_ntt_form |-> ntt, scale |-> sc, polys |-> polys]

\* Ciphertext::resize on the buffer: polynomials beyond the old size are new
resize_rns(c, pid, sz) ==
    [c EXCEPT !.size = sz, !.parms_id = pid,
              !.coeff_modulus_count = coeff_modulus_count(pid),
              !.polys = [i \in 1..sz |-> IF i <= c.size THEN c.polys[i]
                                         ELSE ZeroPoly(pid)]]

\* Ciphertext::is_transparent: no polynomial past c_0 has a nonzero coefficient
is_transparent(c) ==
    \/ c.size < 2
    \/ \A i \in 2..c.size : c.polys[i] = ZeroPoly(c.parms_id)

\* #ifdef SEAL_THROW_ON_TRANSPARENT_CIPHERTEXT ... throw logic_error
transparent_guard(throw, c) ==
    IF throw /\ is_transparent(c) THEN Raise(LE, c) ELSE Return(c)

negate_inplace_rns(throw, e) ==
    IF ~is_valid_for(e) THEN Raise(IA, e)
    ELSE LET q == coeff_modulus(e.parms_id)
             negated == [i \in 1..e.size |->
                            [j \in 1..Len(q) |-> negate_poly_coeffmod(e.polys[i][j], q[j])]]
         IN transparent_guard(throw, [e EXCEPT !.polys = negated])

add_tail_left_as_resized(resized, e1, e2, i) == resized.polys[i]

\* polynomial i >= min_count of the sum: copied from encrypted2 when it is the
\* larger operand, else what encrypted1 holds
add_tail(resized, e1, e2, i) ==
    IF e1.size < e2.size THEN e2.polys[i] ELSE resized.polys[i]

add_inplace_rns(throw, e1, e2) ==
    IF add_args_rejected(e1, e2) THEN Raise(IA, e1)
    ELSE LET q == coeff_modulus(e1.parms_id)
             max_count == Max(e1.size, e2.size)
             min_count == Min(e1.size, e2.size)
             resized == resize_rns(e1, e1.parms_id, max_count)
             sum == [i \in 1..max_count |->
                       IF i <= min_count
                       THEN [j \in 1..Len(q) |->
                               add_poly_poly_coeffmod(resized.polys[i][j], e2.polys[i][j], q[j])]
                       ELSE add_tail(resized, e1, e2, i)]
         IN transparent_guard(throw, [resized EXCEPT !.polys = sum])

sub_tail_copied(resized, e1, e2, i, q) ==
    IF e1.size < e2.size THEN e2.polys[i] ELSE resized.polys[i]

\* polynomial i >= min_count of the difference: encrypted2's negated when it
\* is the larger operand, else what encrypted1 holds
sub_tail(resized, e1, e2, i, q) ==
    IF e1.size < e2.size
    THEN [j \in 1..Len(q) |-> negate_poly_coeffmod(e2.polys[i][j], q[j])]
    ELSE resized.polys[i]

sub_inplace_rns(throw, e1, e2) ==
    IF add_args_rejected(e1, e2) THEN Raise(IA, e1)
    ELSE LET q == coeff_modulus(e1.parms_id)
             max_count == Max(e1.size, e2.size)
             min_count == Min(e1.size, e2.size)
             resized == resize_rns(e1, e1.parms_id, max_count)
             diff == [i \in 1..max_count |->
                       IF i <= min_count
                       THEN [j \in 1..Len(q) |->
                               sub_poly_poly_coeffmod(resized.polys[i][j], e2.polys[i][j], q[j])]
                       ELSE sub_tail(resized, e1, e2, i, q)]
         IN transparent_guard(throw, [resized EXCEPT !.polys = diff])

\* the residues of an integer coefficient vector at parameter point pid
ToRns(v, pid) ==
    [j \in 1..coeff_modulus_count(pid) |->
        [k \in 1..CoeffCount |-> v[k] % coeff_modulus(pid)[j]]]

\* coefficient vectors the input polynomials are made of: zero, a monomial,
\* mixed residues, and q_j - 1 in every component
SampleValues ==
    <<[k \in 1..CoeffCount |-> 0],
      [k \in 1..CoeffCount |-> IF k = 1 THEN 1 ELSE 0],
      [k \in 1..CoeffCount |-> IF k = 1 THEN 4 ELSE 12],
      [k \in 1..CoeffCount |-> SeqProduct(coeff_modulus(first_parms_id)) - 1]>>

SamplePoly(n, pid) == ToRns(SampleValues[n], pid)

ArithParmsIds == {last_parms_id, next_parms_id(first_parms_id)}

\* ciphertexts of size 2 and 3 over the sample polynomials
ArithInputs(pid, ntt, sc) ==
    {RnsCiphertext(Len(ns), pid, ntt, sc, [i \in 1..Len(ns) |-> SamplePoly(ns[i], pid)]) :
        ns \in {<<3, 4>>, <<2, 1>>, <<4, 3, 2>>, <<1, 1, 3>>}}

\* operands add and sub reject next to a c1 at pid
ArithMismatches(pid) ==
    {RnsCiphertext(2, OtherParmsId(pid), TRUE, Scale(5, 1),
                   <<SamplePoly(3, OtherParmsId(pid)), SamplePoly(4, OtherParmsId(pid))>>),
     RnsCiphertext(2, pid, FALSE, Scale(5, 1), <<SamplePoly(3, pid), SamplePoly(4, pid)>>),
     RnsCiphertext(2, pid, TRUE, Scale(25, 1), <<SamplePoly(3, pid), SamplePoly(4, pid)>>)}

InitArith ==
    /\ scheme = "CKKS"
    /\ ct = EmptyCiphertext
    /\ out = EmptyCiphertext
    /\ last = NoCall
    /\ tr = NoTree
    /\ da = NoDecompose
    /\ ks = NoKeySwitch
    /\ sq = NoSquare
    /\ cv = NoConvolution
    /\ mp = NoPlainMul
    /\ gs = NoGaloisSteps
    /\ rl = NoRelin
    /\ lp = NoLoop
    /\ thr = NoThreads
    /\ nt = NoTransform
    /\ many = NoMany
    /\ gal = NoGalois
    /\ \E pid \in ArithParmsIds, throw \in BOOLEAN :
          \E c1 \in ArithInputs(pid, TRUE, Scale(5, 1)),
             c2 \in ArithInputs(pid, TRUE, Scale(5, 1)) \cup ArithMismatches(pid) :
                ar = [op |-> "none", outcome |-> OK, c1 |-> c1, c2 |-> c2, arg |-> c2,
                      alias |-> FALSE, pre |-> c1.size, n |-> 0, throw |-> throw]

\* a call on c1 with second operand e2 ended with result r
ArithCall(op, r, e2, alias) ==
    /\ ar.n < MaxHist
    /\ ar' = [ar EXCEPT !.op = op, !.outcome = r.outcome, !.c1 = r.c, !.arg = e2,
                        !.alias = alias, !.pre = ar.c1.size, !.n = ar.n + 1]
    /\ UNCHANGED <<scheme, ct, out, last, many, gal, nt, thr, lp, rl, gs, mp, cv, sq, ks, da, tr>>

ArithNegate ==
    ArithCall("negate_inplace", negate_inplace_rns(ar.throw, ar.c1), ar.c2, FALSE)

\* negate_inplace on the object later passed as second operand
ArithNegateOperand ==
    /\ ar.n < MaxHist
    /\ LET r == negate_inplace_rns(ar.throw, ar.c2)
       IN ar' = [ar EXCEPT !.op = "negate_operand", !.outcome = r.outcome, !.c2 = r.c,
                           !.arg = ar.c2, !.alias = FALSE, !.pre = ar.c1.size,
                           !.n = ar.n + 1]
    /\ UNCHANGED <<scheme, ct, out, last, many, gal, nt, thr, lp, rl, gs, mp, cv, sq, ks, da, tr>>

ArithAdd ==
    ArithCall("add_inplace", add_inplace_rns(ar.throw, ar.c1, ar.c2), ar.c2, FALSE)

ArithAddSelf ==
    ArithCall("add_inplace", add_inplace_rns(ar.throw, ar.c1, ar.c1), ar.c1, TRUE)

ArithSub ==
    ArithCall("sub_inplace", sub_inplace_rns(ar.throw, ar.c1, ar.c2), ar.c2, FALSE)

ArithSubSelf ==
    ArithCall("sub_inplace", sub_inplace_rns(ar.throw, ar.c1, ar.c1), ar.c1, TRUE)

NextArith ==
    \/ ArithNegate
    \/ ArithNegateOperand
    \/ ArithAdd
    \/ ArithAddSelf
    \/ ArithSub
    \/ ArithSubSelf

SpecArith == InitArith /\ [][NextArith]_vars

(***************************************************************************)
(* Properties of SpecArith                                                 *)
(***************************************************************************)
\* product of a and b in Z_q[x] / (x^CoeffCount + 1)
NegacyclicMul(a, b, q) ==
    LET term(i, k) ==
            IF i <= k THEN a[i] * b[k - i + 1]
            ELSE q * q - a[i] * b[k - i + 1 + CoeffCount]
        RECURSIVE sum(_, _)
        sum(i, k) == IF i = 0 THEN 0 ELSE term(i, k) + sum(i - 1, k)
    IN [k \in 1..CoeffCount |-> sum(CoeffCount, k) % q]

\* secret keys: ternary polynomials, coefficients -1, 0, 1 as residues
SecretKeys(q) == [1..CoeffCount -> {0, 1, q - 1}]

\* component j of c_0 + c_1 s + ... + c_{size-1} s^{size-1}, by Horner's rule
RECURSIVE PhaseFrom(_, _, _, _)
PhaseFrom(c, j, sk, i) ==
    LET q == coeff_modulus(c.parms_id)[j]
    IN IF i = c.size
       THEN c.polys[i][j]
       ELSE add_poly_poly_coeffmod(c.polys[i][j],
                                   NegacyclicMul(PhaseFrom(c, j, sk, i + 1), sk, q), q)

Phase(c, j, sk) == PhaseFrom(c, j, sk, 1)

\* the operand of the larger size, whose tail the result takes
Larger(a, b) == IF a.size < b.size THEN b ELSE a

\* C9: add_inplace(c1, c2) on operands of equal parms_id, form and scale
\* leaves c1 with size max(s1, s2), polynomial i below min(s1, s2) equal to
\* (c1_i + c2_i) mod q_j in every component, the remaining polynomials equal to
\* those of the larger operand, c2 as it was, and the phase of the result
\* equal to the sum of the operands' phases.
C9_AddResult ==
    [][(ar'.op = "add_inplace" /\ ~add_args_rejected(ar.c1, ar'.arg))
        => LET a == ar.c1
               b == ar'.arg
               r == ar'.c1
               q == coeff_modulus(a.parms_id)
           IN /\ r.size = Max(a.size, b.size)
              /\ Len(r.polys) = r.size
              /\ r.parms_id = a.parms_id
              /\ \A i \in 1..r.size, j \in 1..Len(q), k \in 1..CoeffCount :
                    r.polys[i][j][k] =
                        IF i <= Min(a.size, b.size)
                        THEN (a.polys[i][j][k] + b.polys[i][j][k]) % q[j]
                        ELSE Larger(a, b).polys[i][j][k]
              /\ ar'.c2 = ar.c2
              /\ \A j \in 1..Len(q) : \A sk \in SecretKeys(q[j]) :
                    Phase(r, j, sk) =
                        add_poly_poly_coeffmod(Phase(a, j, sk), Phase(b, j, sk), q[j])]_vars

C9_Witness ==
    /\ ar.op = "add_inplace"
    /\ ar.outcome = OK
    /\ ~ar.alias
    /\ ar.pre = 2
    /\ ar.arg.size = 3
    /\ ar.c1.size = 3
    /\ ar.c1.polys[3] = ar.arg.polys[3]
    /\ \E j \in 1..ar.c1.coeff_modulus_count, k \in 1..CoeffCount :
          ar.c1.polys[1][j][k] < ar.arg.polys[1][j][k]

\* C10: sub_inplace(c1, c2) on operands of equal parms_id, form and scale
\* leaves c1 equal to add_inplace(c1, negate(c2)): c1_i - c2_i mod q_j on the
\* overlap, a surplus tail of c2 negated (q_j - x for x # 0, 0 for x = 0), a
\* surplus tail of c1 kept, every coefficient in [0, q_j).
C10_SubIsAddNegate ==
    [][(ar'.op = "sub_inplace" /\ ~add_args_rejected(ar.c1, ar'.arg))
        => LET a == ar.c1
               b == ar'.arg
               r == ar'.c1
               q == coeff_modulus(a.parms_id)
           IN /\ r = add_inplace_rns(FALSE, a, negate_inplace_rns(FALSE, b).c).c
              /\ r.size = Max(a.size, b.size)
              /\ \A i \in 1..r.size, j \in 1..Len(q), k \in 1..CoeffCount :
                    /\ r.polys[i][j][k] \in 0..(q[j] - 1)
                    /\ r.polys[i][j][k] =
                          IF i <= Min(a.size, b.size)
                          THEN (a.polys[i][j][k] + q[j] - b.polys[i][j][k]) % q[j]
                          ELSE IF a.size < b.size
                               THEN (IF b.polys[i][j][k] = 0 THEN 0
                                     ELSE q[j] - b.polys[i][j][k])
                               ELSE a.polys[i][j][k]]_vars

C10_Witness ==
    /\ ar.op = "sub_inplace"
    /\ ar.outcome = OK
    /\ ~ar.alias
    /\ ar.pre = 2
    /\ ar.arg.size = 3
    /\ ar.c1.size = 3
    /\ \E j \in 1..ar.c1.coeff_modulus_count, k \in 1..CoeffCount :
          ar.arg.polys[3][j][k] = 0 /\ ar.c1.polys[3][j][k] = 0
    /\ \E j \in 1..ar.c1.coeff_modulus_count, k \in 1..CoeffCount :
          /\ ar.arg.polys[3][j][k] # 0
          /\ ar.c1.polys[3][j][k] = coeff_modulus(ar.c1.parms_id)[j] - ar.arg.polys[3][j][k]

(***************************************************************************)
(* multiply_many, exponentiate_inplace                                     *)
(***************************************************************************)
\* largest number of inputs of add_many / multiply_many, largest exponent
MaxInputs == 4

\* how often each of the n inputs of a call has been multiplied into a value
UnitFactor(n, k) == [i \in 1..n |-> IF i = k THEN 1 ELSE 0]

JoinFactors(f, g) == [i \in DOMAIN f |-> f[i] + g[i]]

\* a ciphertext held by multiply_many and the inputs it is the product of
Item(c, f) == [c |-> c, factors |-> f]

\* result of a call on a vector: how it ended, what destination holds, the
\* inputs destination is made of and the number of binary steps performed
ManyRes(o, c, f, n) == [outcome |-> o, destination |-> c, factors |-> f, steps |-> n]

\* encrypteds[i].data() == encrypteds[i + 1].data(): the elements of a vector
\* own their buffers, so two of them agree only when neither has one
same_data(e1, e2) == e1 = EmptyCiphertext /\ e2 = EmptyCiphertext

\* relinearize_inplace(temp, relin_keys) has run on the product
relinearize_temp(r, a, b, squared) ==
    [outcome |-> r.outcome,
     item |-> Item(r.c, JoinFactors(a.factors, IF squared THEN a.factors ELSE b.factors))]

\* the product m of a and b has been computed into temp
multiply_temp(sch, m, a, b, keys, squared) ==
    IF m.outcome # OK
    THEN [outcome |-> m.outcome, item |-> a]
    ELSE relinearize_temp(relinearize_internal(sch, m.c, keys, 2), a, b, squared)

\* multiply(a, b, temp) or square(a, temp), then relinearize_inplace(temp)
multiply_relinearize(sch, a, b, keys, squared) ==
    multiply_temp(sch,
                  IF squared THEN square_inplace(sch, a.c, FALSE)
                  ELSE multiply_inplace(sch, a.c, b.c, FALSE),
                  a, b, keys, squared)

\* for (i = 0; i < encrypteds.size() - 1; i += 2): the first level of products;
\* first_level_body is the rest of an iteration whose product is r
RECURSIVE first_level(_, _, _, _, _), first_level_body(_, _, _, _, _, _)
first_level(sch, items, keys, i, product_vec) ==
    IF i >= Len(items) - 1
    THEN [outcome |-> OK, vec |-> product_vec]
    ELSE first_level_body(sch, items, keys, i, product_vec,
                          multiply_relinearize(sch, items[i + 1], items[i + 2], keys,
                                               same_data(items[i + 1].c, items[i + 2].c)))

first_level_body(sch, items, keys, i, product_vec, r) ==
    IF r.outcome # OK
    THEN [outcome |-> r.outcome, vec |-> product_vec]
    ELSE first_level(sch, items, keys, i + 2, Append(product_vec, r.item))

multiply_many_leftover_dropped(items) == <<>>

\* if (encrypteds.size() & 1) product_vec.emplace_back(encrypteds.back())
multiply_many_leftover(items) ==
    IF Len(items) % 2 = 1 THEN <<items[Len(items)]>> ELSE <<>>

product_loop_advance_by_one(i) == i + 1

\* i += 2 of the loop over product_vec
product_loop_advance(i) == i + 2

\* for (i = 0; i < product_vec.size() - 1; i += 2): products of products,
\* appended to the vector the loop runs over; product_loop_body is the rest of
\* an iteration whose product is r
RECURSIVE product_loop(_, _, _, _, _), product_loop_body(_, _, _, _, _, _)
product_loop(sch, product_vec, keys, i, n) ==
    IF i >= Len(product_vec) - 1
    THEN [outcome |-> OK, vec |-> product_vec, steps |-> n]
    ELSE product_loop_body(sch, product_vec, keys, i, n,
                           multiply_relinearize(sch, product_vec[i + 1],
                                                product_vec[i + 2], keys, FALSE))

product_loop_body(sch, product_vec, keys, i, n, r) ==
    IF r.outcome # OK
    THEN [outcome |-> r.outcome, vec |-> product_vec, steps |-> n]
    ELSE product_loop(sch, Append(product_vec, r.item), keys,
                      product_loop_advance(i), n + 1)

\* destination = product_vec.back(), when the second loop has ended with r
multiply_many_back(r, destination, none) ==
    IF r.outcome # OK
    THEN ManyRes(r.outcome, destination, none, r.steps)
    ELSE ManyRes(OK, r.vec[Len(r.vec)].c, r.vec[Len(r.vec)].factors, r.steps)

\* the rest of multiply_many when the first loop has ended with first
multiply_many_products(sch, first, items, keys, destination, none) ==
    IF first.outcome # OK
    THEN ManyRes(first.outcome, destination, none, Len(first.vec))
    ELSE multiply_many_back(product_loop(sch, first.vec \o multiply_many_leftover(items),
                                         keys, 0, Len(first.vec)),
                            destination, none)

\* alias is the position of the element of encrypteds that destination is,
\* 0 when destination is a separate object
multiply_many(sch, encrypteds, keys, destination, alias) ==
    LET size == Len(encrypteds)
        none == [i \in 1..size |-> 0]
        items == [i \in 1..size |-> Item(encrypteds[i], UnitFactor(size, i))]
    IN IF size = 0 THEN ManyRes(IA, destination, none, 0)
       ELSE IF alias # 0 THEN ManyRes(IA, destination, none, 0)
       ELSE IF ~has_context_data(encrypteds[1].parms_id)
            THEN ManyRes(IA, destination, none, 0)
       ELSE IF sch # "BFV" THEN ManyRes(LE, destination, none, 0)
       ELSE IF size = 1 THEN ManyRes(OK, encrypteds[1], UnitFactor(1, 1), 0)
       ELSE multiply_many_products(sch, first_level(sch, items, keys, 0, <<>>),
                                   items, keys, destination, none)

exp_vector_one_short(exponent, encrypted) == [i \in 1..(exponent - 1) |-> encrypted]

\* vector<Ciphertext> exp_vector(exponent, encrypted)
exp_vector(exponent, encrypted) == [i \in 1..exponent |-> encrypted]

exponentiate_inplace(sch, encrypted, exponent, keys) ==
    IF ~has_context_data(encrypted.parms_id) THEN ManyRes(IA, encrypted, <<>>, 0)
    ELSE IF ~has_context_data(keys.parms_id) THEN ManyRes(IA, encrypted, <<>>, 0)
    ELSE IF exponent = 0 THEN ManyRes(IA, encrypted, <<>>, 0)
    ELSE IF exponent = 1 THEN ManyRes(OK, encrypted, <<1>>, 0)
    ELSE multiply_many(sch, exp_vector(exponent, encrypted), keys, encrypted, 0)

(***************************************************************************)
(* add_many                                                                *)
(***************************************************************************)
add_many_initial_last(encrypteds) == encrypteds[Len(encrypteds)]

\* destination = encrypteds[0]
add_many_initial(encrypteds) == encrypteds[1]

\* for (i = 1; i < encrypteds.size(); i++) add_inplace(destination, encrypteds[i])
RECURSIVE add_many_loop(_, _, _, _)
add_many_loop(throw, encrypteds, destination, i) ==
    IF i >= Len(encrypteds)
    THEN ManyRes(OK, destination, <<>>, i - 1)
    ELSE LET r == add_inplace_rns(throw, destination, encrypteds[i + 1])
         IN IF r.outcome # OK
            THEN ManyRes(r.outcome, r.c, <<>>, i - 1)
            ELSE add_many_loop(throw, encrypteds, r.c, i + 1)

add_many(throw, encrypteds, destination, alias) ==
    IF Len(encrypteds) = 0 THEN ManyRes(IA, destination, <<>>, 0)
    ELSE IF alias # 0 THEN ManyRes(IA, destination, <<>>, 0)
    ELSE add_many_loop(throw, encrypteds, add_many_initial(encrypteds), 1)

(***************************************************************************)
(* SpecMany: calls on vectors of ciphertexts                               *)
(***************************************************************************)
EmptyRns == RnsCiphertext(0, parms_id_zero, FALSE, Scale(1, 1), <<>>)

\* vectors for add_many: two values in turn, one position possibly holding
\* an operand add_inplace rejects
AddManyInputs(pid) ==
    UNION {{[i \in 1..n |-> IF i = pos THEN odd ELSE IF i % 2 = 1 THEN a ELSE b] :
               pos \in 0..n,
               a \in ArithInputs(pid, TRUE, Scale(5, 1)),
               b \in ArithInputs(pid, TRUE, Scale(5, 1)),
               odd \in ArithMismatches(pid)} :
           n \in 0..MaxInputs}

\* vectors for multiply_many: fresh ciphertexts of the scheme at one chain
\* point, one position possibly holding something else
MultiplyManyOdd(sch, pid) ==
    {Ciphertext(3, pid, SchemeNttForm(sch), InitialScale(sch), 0),
     Ciphertext(2, OtherParmsId(pid), SchemeNttForm(sch), InitialScale(sch), 0),
     Ciphertext(2, pid, ~SchemeNttForm(sch), InitialScale(sch), 0),
     EmptyCiphertext}

MultiplyManyInputs(sch) ==
    UNION {{[i \in 1..n |-> IF i = pos THEN odd
                            ELSE Ciphertext(2, pid, SchemeNttForm(sch), InitialScale(sch), 0)] :
               pos \in 0..n, odd \in MultiplyManyOdd(sch, pid)} :
           n \in 0..MaxInputs, pid \in DataParmsIds}

\* the positions of the vector a caller's destination may be: none, the
\* first element, the last element
AliasInputs(encrypteds) == {0, Len(encrypteds)} \cup {k \in {1} : Len(encrypteds) >= 1}

\* the destination object of a call: element alias of the vector, or a
\* separate object holding own
DestinationOf(encrypteds, alias, own) ==
    IF alias = 0 THEN own ELSE encrypteds[alias]

InitMany ==
    /\ scheme \in Schemes
    /\ ct = EmptyCiphertext
    /\ out = EmptyCiphertext
    /\ last = NoCall
    /\ tr = NoTree
    /\ da = NoDecompose
    /\ ks = NoKeySwitch
    /\ sq = NoSquare
    /\ cv = NoConvolution
    /\ mp = NoPlainMul
    /\ gs = NoGaloisSteps
    /\ rl = NoRelin
    /\ lp = NoLoop
    /\ thr = NoThreads
    /\ nt = NoTransform
    /\ ar = NoArith
    /\ gal = NoGalois
    /\ \E throw \in BOOLEAN :
          many = [op |-> "none", outcome |-> OK, cs |-> <<>>, keys |-> NoKeys,
                  alias |-> 0, pre |-> EmptyCiphertext, destination |-> EmptyCiphertext,
                  factors |-> <<>>, steps |-> 0, exponent |-> 0, throw |-> throw]

\* a call reads nothing an earlier call left behind: a behaviour is one call
NoCallYet == many.op = "none"

\* a call on the vector cs with the given destination ended with result r
ManyCall(op, cs, keys, alias, pre, exponent, r) ==
    /\ many' = [op |-> op, outcome |-> r.outcome, cs |-> cs, keys |-> keys,
                alias |-> alias, pre |-> pre, destination |-> r.destination,
                factors |-> r.factors, steps |-> r.steps, exponent |-> exponent,
                throw |-> many.throw]
    /\ UNCHANGED <<scheme, ct, out, last, ar, gal, nt, thr, lp, rl, gs, mp, cv, sq, ks, da, tr>>

AddMany ==
    /\ NoCallYet
    /\ \E pid \in ArithParmsIds :
       \E cs \in AddManyInputs(pid), own \in {EmptyRns, CHOOSE c \in ArithMismatches(pid) : TRUE} :
          \E alias \in AliasInputs(cs) :
             LET pre == DestinationOf(cs, alias, own)
             IN ManyCall("add_many", cs, NoKeys, alias, pre, 0,
                         add_many(many.throw, cs, pre, alias))

MultiplyMany ==
    /\ NoCallYet
    /\ \E cs \in MultiplyManyInputs(scheme), keys \in KeyInputs, own \in DestInputs(scheme) :
       \E alias \in AliasInputs(cs) :
          LET pre == DestinationOf(cs, alias, own)
          IN ManyCall("multiply_many", cs, keys, alias, pre, 0,
                      multiply_many(scheme, cs, keys, pre, alias))

ExponentiateInplace ==
    /\ NoCallYet
    /\ \E cs \in MultiplyManyInputs(scheme), keys \in KeyInputs, exponent \in 0..MaxInputs :
       /\ Len(cs) = 1
       /\ ManyCall("exponentiate_inplace", exp_vector(exponent, cs[1]), keys, 0, cs[1],
                   exponent, exponentiate_inplace(scheme, cs[1], exponent, keys))

NextMany ==
    \/ AddMany
    \/ MultiplyMany
    \/ ExponentiateInplace

SpecMany == InitMany /\ [][NextMany]_vars

(***************************************************************************)
(* Properties of SpecMany                                                  *)
(***************************************************************************)
\* every input once
EachOnce(n) == [i \in 1..n |-> 1]

\* fresh size-2 BFV inputs at one chain point, a separate destination and
\* relinearization keys that hold a valid entry for s^2
ValidForMultiplyMany ==
    /\ scheme = "BFV"
    /\ Len(many.cs) >= 1
    /\ many.alias = 0
    /\ \A i \in 1..Len(many.cs) :
          /\ is_valid_for(many.cs[i])
          /\ many.cs[i].size = 2
          /\ ~many.cs[i].is_ntt_form
          /\ many.cs[i].parms_id = many.cs[1].parms_id
    /\ many.keys.parms_id = key_parms_id
    /\ many.keys.size >= 1
    /\ many.keys.bad # 0

\* C11: multiply_many on n >= 1 valid BFV ciphertexts returns; whenever it
\* returns, destination is a product in which every input is a factor exactly
\* once, made with exactly n - 1 multiply-then-relinearize steps (the odd
\* leftover included), and for n = 1 it is cs[0] with no multiplication.
C11_MultiplyManyProduct ==
    many.op = "multiply_many" =>
        LET n == Len(many.cs)
        IN /\ ValidForMultiplyMany => many.outcome = OK
           /\ many.outcome = OK =>
                 /\ n >= 1
                 /\ many.factors = EachOnce(n)
                 /\ many.steps = n - 1
                 /\ n = 1 => many.destination = many.cs[1]
                 /\ n >= 2 => /\ many.destination.size = 2
                              /\ many.destination.parms_id = many.cs[1].parms_id

\* an odd number of inputs, at least three, was multiplied
C11_Witness ==
    /\ many.op = "multiply_many"
    /\ many.outcome = OK
    /\ Len(many.cs) >= 3
    /\ Len(many.cs) % 2 = 1
    /\ many.steps = Len(many.cs) - 1

\* C12: exponentiate_inplace(c, e, relin_keys) raises invalid-argument and
\* leaves c alone for e = 0; returns with c unchanged and no multiplication
\* for e = 1 when c and the keys belong to the context; for e >= 2 ends as
\* multiply_many on e copies of c does, a product with exactly e factors c.
C12_Exponentiate ==
    many.op = "exponentiate_inplace" =>
        LET e == many.exponent
            c == many.pre
            known == has_context_data(c.parms_id) /\ has_context_data(many.keys.parms_id)
            copies == [i \in 1..e |-> c]
            product == multiply_many(scheme, copies, many.keys, c, 0)
        IN /\ e = 0 => many.outcome = IA /\ many.destination = c
           /\ e = 1 /\ known =>
                 many.outcome = OK /\ many.destination = c /\ many.steps = 0
           /\ e >= 2 /\ known =>
                 /\ many.cs = copies
                 /\ many.outcome = product.outcome
                 /\ many.destination = product.destination
                 /\ many.outcome = OK =>
                       many.factors = EachOnce(e) /\ many.steps = e - 1
           /\ many.outcome # OK => many.destination = c

\* a third power was computed
C12_Witness ==
    /\ many.op = "exponentiate_inplace"
    /\ many.exponent = 3
    /\ many.outcome = OK
    /\ many.steps = 2
    /\ many.factors = EachOnce(3)

\* coefficient k of RNS component j of polynomial i of c, zero past its size
CoeffOf(c, i, j, k) == IF i <= c.size THEN c.polys[i][j][k] ELSE 0

\* the integer sum of that coefficient over the first m ciphertexts of cs
RECURSIVE CoeffSum(_, _, _, _, _)
CoeffSum(cs, m, i, j, k) ==
    IF m = 0 THEN 0 ELSE CoeffSum(cs, m - 1, i, j, k) + CoeffOf(cs[m], i, j, k)

RECURSIVE LargestSize(_, _)
LargestSize(cs, m) == IF m = 0 THEN 0 ELSE Max(LargestSize(cs, m - 1), cs[m].size)

\* C13: add_many and multiply_many raise invalid-argument on an empty vector
\* and on a destination that is an element of the vector, with destination
\* not written; an add_many that returns leaves in destination the sum
\* cs[0] + cs[1] + ... + cs[n-1], a copy of cs[0] when n = 1.
C13_ManyArgumentChecks ==
    LET n == Len(many.cs)
    IN /\ many.op \in {"add_many", "multiply_many"} /\ (n = 0 \/ many.alias # 0) =>
             many.outcome = IA /\ many.destination = many.pre
       /\ many.op = "add_many" /\ many.outcome = OK =>
             LET d == many.destination
                 q == coeff_modulus(many.cs[1].parms_id)
             IN /\ n >= 1 /\ many.alias = 0
                /\ n = 1 => d = many.cs[1]
                /\ d.parms_id = many.cs[1].parms_id
                /\ d.is_ntt_form = many.cs[1].is_ntt_form
                /\ d.scale = many.cs[1].scale
                /\ d.size = LargestSize(many.cs, n)
                /\ \A i \in 1..d.size, j \in 1..Len(q), k \in 1..CoeffCount :
                      d.polys[i][j][k] = CoeffSum(many.cs, n, i, j, k) % q[j]

\* three or more ciphertexts of different sizes were added up
C13_Witness ==
    /\ many.op = "add_many"
    /\ many.outcome = OK
    /\ Len(many.cs) >= 3
    /\ many.cs[1].size # many.cs[2].size
    /\ many.cs[1].polys[1] # many.cs[2].polys[1]
    /\ many.destination # many.cs[1]

\* C14: whenever add_many raises, destination holds the value it had before
\* the call.
C14_AddManyAtomic ==
    many.op = "add_many" /\ many.outcome # OK => many.destination = many.pre

(***************************************************************************)
(* apply_galois_inplace, rotate_internal                                   *)
(***************************************************************************)
\* log2 of the poly_modulus_degree of the parameters used in SpecGalois
LogDegree == 5

\* parms.poly_modulus_degree()
poly_modulus_degree == Pow2(LogDegree)

RECURSIVE PowMod(_, _, _)
PowMod(b, e, m) == IF e = 0 THEN 1 % m ELSE (b * PowMod(b, e - 1, m)) % m

\* GaloisTool::get_elt_from_step: the element 3^step mod 2N of a row rotation
\* by step (to the left for step > 0)
get_elt_from_step(step) ==
    PowMod(3, step % (poly_modulus_degree \div 2), 2 * poly_modulus_degree)

\* a step count the Galois tool has no element for
step_too_large(step) == Abs(step) >= poly_modulus_degree \div 2

\* GaloisKeys: the parameter point they were generated at and the Galois
\* elements they hold a key for
GaloisKeys(pid, elts) == [parms_id |-> pid, elts |-> elts]

\* GaloisKeys::get_index(galois_elt)
galois_get_index(galois_elt) == (galois_elt - 1) \div 2

\* GaloisKeys::has_key(galois_elt): an even element has no index
has_key(keys, galois_elt) == galois_elt % 2 = 1 /\ galois_elt \in keys.elts

\* util::naf(value): the signed binary digits of value with no two adjacent
\* nonzero digits, lowest power of two first
RECURSIVE naf_from(_, _, _)
naf_from(value, i, sign) ==
    IF value = 0 THEN <<>>
    ELSE LET zi == IF value % 2 = 1 THEN 2 - (value % 4) ELSE 0
             rest == naf_from((value - zi) \div 2, i + 1, sign)
         IN IF zi # 0 THEN <<sign * zi * Pow2(i)>> \o rest ELSE rest

naf(value) == naf_from(Abs(value), 0, Sign(value))

\* a ciphertext under rotation: its shape, the automorphism x -> x^aut its
\* polynomials have gone through, the row rotations applied by the call, and
\* the number of writes the call has made to its polynomials
Rotated(c, aut, applied, written) ==
    [c |-> c, aut |-> aut, applied |-> applied, written |-> written]

GalRes(o, g) == [outcome |-> o, g |-> g]

\* !(galois_elt & 1) || unsigned_geq(galois_elt, m)
galois_elt_invalid(galois_elt, m) == galois_elt % 2 = 0 \/ galois_elt >= m

galois_size_rejected_above_three(encrypted_size) == encrypted_size > 3

\* encrypted_size > 2
galois_size_rejected(encrypted_size) == encrypted_size > 2

apply_galois_inplace(sch, g, galois_elt, keys) ==
    LET m == 2 * poly_modulus_degree
    IN IF ~is_valid_for(g.c) THEN GalRes(IA, g)
       ELSE IF keys.parms_id # key_parms_id THEN GalRes(IA, g)
       ELSE IF ~has_key(keys, galois_elt) THEN GalRes(IA, g)
       ELSE IF galois_elt_invalid(galois_elt, m) THEN GalRes(IA, g)
       ELSE IF galois_size_rejected(g.c.size) THEN GalRes(IA, g)
       ELSE \* c_0 is replaced by its image, c_1 is wiped, then the key switch
            \* adds the image of c_1 times the key
            LET permuted == [g EXCEPT !.c = write(write(g.c)), !.written = g.written + 2]
                r == switch_key_inplace(sch, permuted.c,
                                        KSwitchKeys(keys.parms_id,
                                                    galois_get_index(galois_elt) + 1, -1),
                                        galois_get_index(galois_elt))
            IN IF r.outcome # OK
               THEN GalRes(r.outcome, permuted)
               ELSE GalRes(OK, [permuted EXCEPT !.c = r.c,
                                                !.written = permuted.written + 1,
                                                !.aut = (g.aut * galois_elt) % m])

naf_term_skipped_never(step) == FALSE

\* safe_cast<size_t>(abs(step)) == (coeff_count >> 1)
naf_term_skipped(step) == Abs(step) = poly_modulus_degree \div 2

RECURSIVE rotate_internal(_, _, _, _, _, _)
RECURSIVE rotate_naf_steps(_, _, _, _, _, _, _)
\* for_each_n(naf_steps.cbegin(), naf_steps.size(), ...)
rotate_naf_steps(sch, g, naf_steps, i, keys, batching, checked) ==
    IF i > Len(naf_steps)
    THEN GalRes(OK, g)
    ELSE IF naf_term_skipped(naf_steps[i])
         THEN rotate_naf_steps(sch, g, naf_steps, i + 1, keys, batching, checked)
         ELSE LET r == rotate_internal(sch, g, naf_steps[i], keys, batching, checked)
              IN IF r.outcome # OK
                 THEN r
                 ELSE rotate_naf_steps(sch, r.g, naf_steps, i + 1, keys, batching, checked)

\* batching is qualifiers().using_batching of the ciphertext's parameters;
\* checked says whether get_elt_from_step rejects a step count it has no
\* element for
rotate_internal(sch, g, steps, keys, batching, checked) ==
    IF ~has_context_data(g.c.parms_id) THEN GalRes(IA, g)
    ELSE IF ~batching THEN GalRes(LE, g)
    ELSE IF keys.parms_id # key_parms_id THEN GalRes(IA, g)
    ELSE IF steps = 0 THEN GalRes(OK, g)
    ELSE IF checked /\ step_too_large(steps) THEN GalRes(IA, g)
    ELSE IF has_key(keys, get_elt_from_step(steps))
         THEN LET r == apply_galois_inplace(sch, g, get_elt_from_step(steps), keys)
              IN IF r.outcome # OK
                 THEN r
                 ELSE GalRes(OK, [r.g EXCEPT !.applied = Append(r.g.applied, steps)])
         ELSE IF Len(naf(steps)) = 1
              THEN GalRes(IA, g)
              ELSE rotate_naf_steps(sch, g, naf(steps), 1, keys, batching, checked)

(***************************************************************************)
(* SpecGalois                                                              *)
(***************************************************************************)
RowSize == poly_modulus_degree \div 2

\* the elements of the rotations by plus and minus the powers of two below
\* the row size, and of the column swap
PowerOfTwoElts ==
    {get_elt_from_step(sgn * Pow2(i)) : sgn \in {-1, 1}, i \in 0..(LogDegree - 2)}
    \cup {2 * poly_modulus_degree - 1}

AllElts == {e \in 1..(2 * poly_modulus_degree - 1) : e % 2 = 1}

GaloisKeyInputs ==
    {GaloisKeys(key_parms_id, elts) :
        elts \in {PowerOfTwoElts, AllElts, {}, {get_elt_from_step(1)},
                  {3, 2 * poly_modulus_degree + 1}}}
    \cup {GaloisKeys(first_parms_id, AllElts)}

StepInputs == (-(RowSize + 1))..(RowSize + 1)

EltInputs == 0..(2 * poly_modulus_degree + 1)

InitGalois ==
    /\ scheme \in Schemes
    /\ ct = EmptyCiphertext
    /\ out = EmptyCiphertext
    /\ last = NoCall
    /\ tr = NoTree
    /\ da = NoDecompose
    /\ ks = NoKeySwitch
    /\ sq = NoSquare
    /\ cv = NoConvolution
    /\ mp = NoPlainMul
    /\ gs = NoGaloisSteps
    /\ rl = NoRelin
    /\ lp = NoLoop
    /\ thr = NoThreads
    /\ nt = NoTransform
    /\ ar = NoArith
    /\ many = NoMany
    /\ \E sz \in OperandSizes, pid \in DataParmsIds \cup {parms_id_zero}, ntt \in BOOLEAN,
          keys \in GaloisKeyInputs, batching \in BOOLEAN, checked \in BOOLEAN :
          LET c == Ciphertext(sz, pid, ntt, InitialScale(scheme), 0)
          IN gal = [op |-> "none", outcome |-> OK, c |-> c, pre |-> c, aut |-> 1,
                    applied |-> <<>>, written |-> 0, steps |-> 0, elt |-> 1,
                    keys |-> keys, using_batching |-> batching, step_checked |-> checked]

\* a call reads nothing but its arguments: a behaviour is one call
NoGaloisCallYet == gal.op = "none"

GaloisCall(op, steps, elt, r) ==
    /\ gal' = [gal EXCEPT !.op = op, !.outcome = r.outcome, !.c = r.g.c,
                          !.aut = r.g.aut, !.applied = r.g.applied,
                          !.written = r.g.written, !.steps = steps, !.elt = elt]
    /\ UNCHANGED <<scheme, ct, out, last, ar, many, nt, thr, lp, rl, gs, mp, cv, sq, ks, da, tr>>

ApplyGaloisInplace ==
    /\ NoGaloisCallYet
    /\ \E galois_elt \in EltInputs :
          GaloisCall("apply_galois_inplace", 0, galois_elt,
                     apply_galois_inplace(scheme, Rotated(gal.c, gal.aut, <<>>, 0),
                                          galois_elt, gal.keys))

RotateInternal ==
    /\ NoGaloisCallYet
    /\ \E steps \in StepInputs :
          GaloisCall("rotate_internal", steps, 1,
                     rotate_internal(scheme, Rotated(gal.c, gal.aut, <<>>, 0), steps,
                                     gal.keys, gal.using_batching, gal.step_checked))

NextGalois ==
    \/ ApplyGaloisInplace
    \/ RotateInternal

SpecGalois == InitGalois /\ [][NextGalois]_vars

(***************************************************************************)
(* Properties of SpecGalois                                                *)
(***************************************************************************)
\* C15: apply_galois_inplace raises invalid-argument when galois_elt is even,
\* when it is at least 2N, when the keys hold no key for it, or when the
\* ciphertext has more than two polynomials, and in each of these cases no
\* polynomial of the ciphertext has been written.
C15_GaloisArgumentChecks ==
    /\ gal.op = "apply_galois_inplace"
    /\ \/ gal.elt % 2 = 0
       \/ gal.elt >= 2 * poly_modulus_degree
       \/ gal.elt \notin gal.keys.elts
       \/ gal.pre.size > 2
    => /\ gal.outcome = IA
       /\ gal.written = 0
       /\ gal.c = gal.pre
       /\ gal.aut = 1

\* a valid ciphertext of size 3 met a valid element with a key
C15_Witness ==
    /\ gal.op = "apply_galois_inplace"
    /\ is_valid_for(gal.pre)
    /\ gal.pre.size = 3
    /\ gal.keys.parms_id = key_parms_id
    /\ gal.elt \in gal.keys.elts
    /\ gal.elt % 2 = 1
    /\ gal.elt < 2 * poly_modulus_degree
    /\ gal.outcome = IA

RECURSIVE SeqSum(_)
SeqSum(q) == IF q = <<>> THEN 0 ELSE Head(q) + SeqSum(Tail(q))

\* the NAF terms of steps that stand for a rotation
NeededTerms(steps) == SelectSeq(naf(steps), LAMBDA t : Abs(t) # RowSize)

\* C16: rotate_internal with steps = 0 leaves c unchanged; with a key for the
\* element of steps it performs exactly one apply_galois; otherwise it
\* rotates once per NAF term of steps, in NAF order, skipping the terms of
\* absolute value N/2, so that the applied steps add up to steps modulo N/2
\* (every |steps| < N/2 succeeds with power-of-two keys only); a single-term NAF
\* or a needed term without key raises invalid-argument.
C16_RotateInternal ==
    gal.op = "rotate_internal" =>
        LET steps == gal.steps
            direct == has_key(gal.keys, get_elt_from_step(steps))
            passes == /\ has_context_data(gal.pre.parms_id)
                      /\ gal.using_batching
                      /\ gal.keys.parms_id = key_parms_id
            needed == NeededTerms(steps)
        IN /\ steps = 0 =>
                 /\ gal.c = gal.pre /\ gal.written = 0 /\ gal.applied = <<>>
                 /\ passes => gal.outcome = OK
           /\ gal.outcome = OK /\ steps # 0 =>
                 /\ direct => gal.applied = <<steps>>
                 /\ ~direct => gal.applied = needed /\ Len(naf(steps)) >= 2
                 /\ SeqSum(gal.applied) % RowSize = steps % RowSize
                 /\ gal.aut = get_elt_from_step(steps)
                 /\ gal.written = 3 * Len(gal.applied)
           /\ /\ passes /\ steps # 0 /\ ~direct
              /\ \/ Len(naf(steps)) = 1
                 \/ \E i \in 1..Len(needed) :
                       ~has_key(gal.keys, get_elt_from_step(needed[i]))
              => gal.outcome = IA
           /\ /\ passes /\ is_valid_for(gal.pre) /\ gal.pre.size = 2
              /\ gal.pre.is_ntt_form = SchemeNttForm(scheme)
              /\ PowerOfTwoElts \subseteq gal.keys.elts
              /\ ~step_too_large(steps)
              => gal.outcome = OK

\* steps = N/2 - 3 was rotated with power-of-two keys: NAF <<1, -4, N/2>>,
\* of which the rotations by 1 and by -4 are applied
C16_Witness ==
    /\ gal.op = "rotate_internal"
    /\ gal.steps = RowSize - 3
    /\ gal.keys.elts = PowerOfTwoElts
    /\ ~has_key(gal.keys, get_elt_from_step(gal.steps))
    /\ naf(gal.steps) = <<1, -4, RowSize>>
    /\ gal.outcome = OK
    /\ gal.applied = <<1, -4>>

(***************************************************************************)
(* transform_to_ntt_inplace / transform_from_ntt_inplace, per component    *)
(***************************************************************************)
\* longest sequence of transform calls followed in SpecNtt
MaxTransforms == 3

\* An RNS component is described by the transforms that separate it from
\* its coefficient representation: j stands for the forward transform with
\* the table of prime j, -j for the inverse transform with that table.
\* ntt_negacyclic_harvey(component, tables[j])
ntt_negacyclic_harvey(component, j) ==
    IF component # <<>> /\ component[Len(component)] = -j
    THEN SubSeq(component, 1, Len(component) - 1)
    ELSE Append(component, j)

\* inverse_ntt_negacyclic_harvey(component, tables[j])
inverse_ntt_negacyclic_harvey(component, j) ==
    IF component # <<>> /\ component[Len(component)] = j
    THEN SubSeq(component, 1, Len(component) - 1)
    ELSE Append(component, -j)

NttCiphertext(sz, pid, ntt, sc, dom, transparent) ==
    [size |-> sz, parms_id |-> pid,
     coeff_modulus_count |-> IF has_context_data(pid) THEN coeff_modulus_count(pid) ELSE 0,
     is_ntt_form |-> ntt, scale |-> sc, dom |-> dom, transparent |-> transparent]

\* #ifdef SEAL_THROW_ON_TRANSPARENT_CIPHERTEXT, on a ciphertext that carries
\* its transparency as a flag
transparent_flag_guard(throw, c) ==
    IF throw /\ c.transparent THEN Raise(LE, c) ELSE Return(c)

inverse_table_of_next_prime(j, count) == (j % count) + 1

\* the table paired with RNS component j by the IteratorTuple of the loop
inverse_table(j, count) == j

transform_to_ntt_inplace_rns(throw, e) ==
    IF ~is_valid_for(e) THEN Raise(IA, e)
    ELSE IF e.is_ntt_form THEN Raise(IA, e)
    ELSE transparent_flag_guard(throw,
            [e EXCEPT !.dom = [i \in 1..e.size |->
                                 [j \in 1..e.coeff_modulus_count |->
                                     ntt_negacyclic_harvey(e.dom[i][j], j)]],
                      !.is_ntt_form = TRUE])

transform_from_ntt_inplace_rns(throw, e) ==
    IF ~is_valid_for(e) THEN Raise(IA, e)
    ELSE IF ~e.is_ntt_form THEN Raise(IA, e)
    ELSE transparent_flag_guard(throw,
            [e EXCEPT !.dom = [i \in 1..e.size |->
                                 [j \in 1..e.coeff_modulus_count |->
                                     inverse_ntt_negacyclic_harvey(
                                         e.dom[i][j],
                                         inverse_table(j, e.coeff_modulus_count))]],
                      !.is_ntt_form = FALSE])

(***************************************************************************)
(* SpecNtt                                                                 *)
(***************************************************************************)
\* the components of a ciphertext as its producer left them: in NTT form
\* each was transformed with the table of its own prime
FreshComponents(sz, pid, ntt) ==
    [i \in 1..sz |->
        [j \in 1..(IF has_context_data(pid) THEN coeff_modulus_count(pid) ELSE 0) |->
            IF ntt THEN <<j>> ELSE <<>>]]

InitNtt ==
    /\ scheme \in Schemes
    /\ ct = EmptyCiphertext
    /\ out = EmptyCiphertext
    /\ last = NoCall
    /\ tr = NoTree
    /\ da = NoDecompose
    /\ ks = NoKeySwitch
    /\ sq = NoSquare
    /\ cv = NoConvolution
    /\ mp = NoPlainMul
    /\ gs = NoGaloisSteps
    /\ rl = NoRelin
    /\ lp = NoLoop
    /\ thr = NoThreads
    /\ ar = NoArith
    /\ many = NoMany
    /\ gal = NoGalois
    /\ \E sz \in OperandSizes, pid \in DataParmsIds \cup {parms_id_zero}, ntt \in BOOLEAN,
          transparent \in BOOLEAN, throw \in BOOLEAN :
          LET c == NttCiphertext(sz, pid, ntt, InitialScale(scheme),
                                 FreshComponents(sz, pid, ntt), transparent)
          IN nt = [op |-> "none", outcome |-> OK, c |-> c, hist |-> <<c>>,
                   calls |-> <<>>, throw |-> throw]

\* a transform call on the ciphertext ended with result r
TransformCall(op, r) ==
    /\ Len(nt.calls) < MaxTransforms
    /\ nt' = [nt EXCEPT !.op = op, !.outcome = r.outcome, !.c = r.c,
                        !.hist = Append(nt.hist, r.c),
                        !.calls = Append(nt.calls, [op |-> op, outcome |-> r.outcome])]
    /\ UNCHANGED <<scheme, ct, out, last, ar, many, gal, thr, lp, rl, gs, mp, cv, sq, ks, da, tr>>

NttTransformTo ==
    TransformCall("transform_to_ntt_inplace", transform_to_ntt_inplace_rns(nt.throw, nt.c))

NttTransformFrom ==
    TransformCall("transform_from_ntt_inplace", transform_from_ntt_inplace_rns(nt.throw, nt.c))

NextNtt ==
    \/ NttTransformTo
    \/ NttTransformFrom

SpecNtt == InitNtt /\ [][NextNtt]_vars

(***************************************************************************)
(* Properties of SpecNtt                                                   *)
(***************************************************************************)
\* C17: transform_to_ntt_inplace returns only from is_ntt_form = false and
\* sets it; transform_from_ntt_inplace returns only from is_ntt_form = true
\* and clears it; a call in the wrong state raises invalid-argument and leaves
\* data and flag alone; neither changes size, parms_id or scale; and a
\* to_ntt followed by from_ntt inverts, with the same table, the transform of
\* every (polynomial, RNS component) pair that was transformed.
C17_NttFlagProtocol ==
    \A k \in 1..Len(nt.calls) :
        LET before == nt.hist[k]
            after == nt.hist[k + 1]
            call == nt.calls[k]
            to == call.op = "transform_to_ntt_inplace"
        IN /\ call.outcome = OK =>
                 before.is_ntt_form = ~to /\ after.is_ntt_form = to
           /\ before.is_ntt_form = to =>
                 call.outcome = IA /\ after = before
           /\ after.size = before.size
           /\ after.parms_id = before.parms_id
           /\ after.scale = before.scale
           /\ to /\ call.outcome = OK =>
                 \A i \in 1..before.size, j \in 1..before.coeff_modulus_count :
                    after.dom[i][j] = Append(before.dom[i][j], j)
           /\ /\ to /\ call.outcome = OK /\ k < Len(nt.calls)
              /\ nt.calls[k + 1] = [op |-> "transform_from_ntt_inplace", outcome |-> OK]
              => nt.hist[k + 2].dom = before.dom

\* a ciphertext at a point with several primes went to NTT form and back
C17_Witness ==
    /\ Len(nt.calls) >= 2
    /\ nt.calls[1] = [op |-> "transform_to_ntt_inplace", outcome |-> OK]
    /\ nt.calls[2] = [op |-> "transform_from_ntt_inplace", outcome |-> OK]
    /\ nt.hist[1].coeff_modulus_count >= 2
    /\ nt.hist[2].dom # nt.hist[1].dom
    /\ nt.hist[3] = nt.hist[1]

(***************************************************************************)
(* The transparent-ciphertext guard on the calls of SpecMany               *)
(***************************************************************************)
\* C18: with the transparent-ciphertext guard enabled no evaluator operation
\* returns normally with a transparent output; here for add_many, whose
\* output is destination.
C18_NoTransparentReturn ==
    many.throw /\ many.op = "add_many" /\ many.outcome = OK
        => ~is_transparent(many.destination)

(***************************************************************************)
(* SpecThreads: concurrent operations on disjoint ciphertexts              *)
(***************************************************************************)
\* number of apply_galois_ntt calls one apply_galois_inplace makes in
\* SpecThreads: one per polynomial and RNS component
GaloisNttCalls == 2

Threads == {1, 2}

\* Zmstar_to_generator_ as populate_Zmstar_to_generator leaves it
populate_Zmstar_to_generator ==
    LET n == poly_modulus_degree
        m == 2 * n
    IN {<<PowMod(3, i, m), i, 0>> : i \in 0..(n \div 2 - 1)}
       \cup {<<(PowMod(3, i, m) * (m - 1)) % m, i, 1>> : i \in 0..(n \div 2 - 1)}

\* the Galois elements the threads rotate by
ThreadElts == {get_elt_from_step(1), get_elt_from_step(2)}

\* the operations a thread runs: apply_galois_inplace, which under CKKS goes
\* through apply_galois_ntt and under BFV through the const apply_galois, and
\* an operation that reads the context only
ThreadOps == {"apply_galois_inplace", "add_inplace"}

NoAccess == [loc |-> <<"none", 0>>, kind |-> "none"]

\* an access that is under way
Access(loc, kind) == [loc |-> loc, kind |-> kind]

TableOf(galois_elt) == <<"permutation_table", galois_elt>>

CiphertextOf(t) == <<"ciphertext", t>>

table_cache_unlocked == FALSE

\* the Galois tool fills its table cache under a reader-writer lock
table_cache_locked == TRUE

InitThreads ==
    /\ scheme \in Schemes
    /\ ct = EmptyCiphertext
    /\ out = EmptyCiphertext
    /\ last = NoCall
    /\ tr = NoTree
    /\ da = NoDecompose
    /\ ks = NoKeySwitch
    /\ sq = NoSquare
    /\ cv = NoConvolution
    /\ mp = NoPlainMul
    /\ gs = NoGaloisSteps
    /\ rl = NoRelin
    /\ lp = NoLoop
    /\ ar = NoArith
    /\ many = NoMany
    /\ gal = NoGalois
    /\ nt = NoTransform
    /\ thr = [pc |-> [t \in Threads |-> "idle"],
              op |-> [t \in Threads |-> "none"],
              elt |-> [t \in Threads |-> 1],
              calls |-> [t \in Threads |-> 0],
              access |-> [t \in Threads |-> NoAccess],
              members |-> [context_ |-> "context",
                           Zmstar_to_generator_ |-> populate_Zmstar_to_generator],
              tables |-> [e \in ThreadElts |-> "null"],
              readers |-> {},
              writer |-> 0]

ThreadStep(next) ==
    /\ thr' = next
    /\ UNCHANGED <<scheme, ct, out, last, ar, many, gal, nt, lp, rl, gs, mp, cv, sq, ks, da, tr>>

\* thread t enters an operation on its own ciphertext
ThreadStart(t) ==
    /\ thr.pc[t] = "idle"
    /\ \E op \in ThreadOps, galois_elt \in ThreadElts :
          ThreadStep([thr EXCEPT !.op[t] = op, !.elt[t] = galois_elt,
                                 !.calls[t] = IF op = "add_inplace" THEN 0
                                              ELSE GaloisNttCalls,
                                 !.pc[t] = IF op = "apply_galois_inplace" /\ scheme = "CKKS"
                                           THEN "call" ELSE "own"])

\* the operation works on its own ciphertext, reading the context and,
\* under BFV, the Galois tool through const members
ThreadOwnBegin(t) ==
    /\ thr.pc[t] = "own"
    /\ ThreadStep([thr EXCEPT !.access[t] = Access(CiphertextOf(t), "write"),
                              !.pc[t] = "own_end"])

ThreadOwnEnd(t) ==
    /\ thr.pc[t] = "own_end"
    /\ ThreadStep([thr EXCEPT !.access[t] = NoAccess,
                              !.calls[t] = Max(thr.calls[t] - 1, 0),
                              !.pc[t] = IF thr.calls[t] > 1
                                        THEN (IF scheme = "CKKS" THEN "call" ELSE "own")
                                        ELSE "done"])

\* apply_galois_ntt: look the table up under the read lock
ThreadCheckBegin(t) ==
    /\ thr.pc[t] = "call"
    /\ table_cache_locked => thr.writer = 0
    /\ ThreadStep([thr EXCEPT !.readers = thr.readers \cup {t},
                              !.access[t] = Access(TableOf(thr.elt[t]), "read"),
                              !.pc[t] = "check_end"])

ThreadCheckEnd(t) ==
    /\ thr.pc[t] = "check_end"
    /\ ThreadStep([thr EXCEPT !.readers = thr.readers \ {t},
                              !.access[t] = NoAccess,
                              !.pc[t] = IF thr.tables[thr.elt[t]] = "ready"
                                        THEN "use" ELSE "compute"])

\* the table is computed into a buffer of the calling thread
ThreadCompute(t) ==
    /\ thr.pc[t] = "compute"
    /\ ThreadStep([thr EXCEPT !.pc[t] = "lock"])

\* take the write lock and look again
ThreadRecheckBegin(t) ==
    /\ thr.pc[t] = "lock"
    /\ table_cache_locked => thr.writer = 0 /\ thr.readers = {}
    /\ ThreadStep([thr EXCEPT !.writer = t,
                              !.access[t] = Access(TableOf(thr.elt[t]), "read"),
                              !.pc[t] = "recheck_end"])

ThreadRecheckEnd(t) ==
    /\ thr.pc[t] = "recheck_end"
    /\ ThreadStep(IF thr.tables[thr.elt[t]] = "ready"
                  THEN [thr EXCEPT !.writer = 0, !.access[t] = NoAccess, !.pc[t] = "use"]
                  ELSE [thr EXCEPT !.access[t] = Access(TableOf(thr.elt[t]), "write"),
                                   !.pc[t] = "write_end"])

\* the cache takes the computed table; the write lock is released
ThreadWriteEnd(t) ==
    /\ thr.pc[t] = "write_end"
    /\ ThreadStep([thr EXCEPT !.tables[thr.elt[t]] = "ready",
                              !.writer = IF thr.writer = t THEN 0 ELSE thr.writer,
                              !.access[t] = NoAccess,
                              !.pc[t] = "use"])

\* the permutation is read from the table and applied into temp
ThreadUseBegin(t) ==
    /\ thr.pc[t] = "use"
    /\ ThreadStep([thr EXCEPT !.access[t] = Access(TableOf(thr.elt[t]), "read"),
                              !.pc[t] = "use_end"])

ThreadUseEnd(t) ==
    /\ thr.pc[t] = "use_end"
    /\ ThreadStep([thr EXCEPT !.access[t] = NoAccess, !.pc[t] = "own"])

NextThreads ==
    \E t \in Threads :
       \/ ThreadStart(t)
       \/ ThreadOwnBegin(t)
       \/ ThreadOwnEnd(t)
       \/ ThreadCheckBegin(t)
       \/ ThreadCheckEnd(t)
       \/ ThreadCompute(t)
       \/ ThreadRecheckBegin(t)
       \/ ThreadRecheckEnd(t)
       \/ ThreadWriteEnd(t)
       \/ ThreadUseBegin(t)
       \/ ThreadUseEnd(t)

SpecThreads == InitThreads /\ [][NextThreads]_vars

(***************************************************************************)
(* Properties of SpecThreads                                               *)
(***************************************************************************)
\* two accesses under way to one location, one of them a write
Race(t1, t2) ==
    /\ t1 # t2
    /\ thr.access[t1] # NoAccess
    /\ thr.access[t1].loc = thr.access[t2].loc
    /\ "write" \in {thr.access[t1].kind, thr.access[t2].kind}

ProductVecCap == 2 * MaxInputs

\* mod_switch_drop_to_next(Plaintext &), called for every step of the walk
mod_switch_drop_to_next_plain(plain, ub) ==
    IF ~plain.is_ntt_form THEN Raise(IA, plain)
    ELSE IF ~has_context_data(plain.parms_id) \/ at_chain_end(plain.parms_id)
         THEN Raise(IA, plain)
    ELSE IF scale_out_of_bounds(plain.scale,
                                total_coeff_modulus_bit_count(next_parms_id(plain.parms_id)),
                                ub)
         THEN Raise(IA, plain)
    ELSE Res(OK, [plain EXCEPT !.parms_id = next_parms_id(plain.parms_id)],
             "mod_switch_drop_to_next", 1)

\* frames of rotate_internal: a call that has not run yet, and the loop over
\* naf_steps of a call that is waiting for the call it made
CallFrame(steps) == [kind |-> "call", steps |-> steps, naf_steps |-> <<>>, i |-> 0]

LoopFrame(naf_steps, i) == [kind |-> "loop", steps |-> 0, naf_steps |-> naf_steps, i |-> i]

Idle ==
    [op |-> "none", pc |-> "idle", c |-> EmptyCiphertext, target |-> parms_id_zero,
     items |-> <<>>, vec |-> <<>>, i |-> 0, keys |-> NoKeys, stack |-> <<>>,
     batching |-> TRUE, checked |-> TRUE, iters |-> 0]

InitLoops ==
    /\ scheme \in Schemes
    /\ ct = EmptyCiphertext
    /\ out = EmptyCiphertext
    /\ last = NoCall
    /\ tr = NoTree
    /\ da = NoDecompose
    /\ ks = NoKeySwitch
    /\ sq = NoSquare
    /\ cv = NoConvolution
    /\ mp = NoPlainMul
    /\ gs = NoGaloisSteps
    /\ rl = NoRelin
    /\ ar = NoArith
    /\ many = NoMany
    /\ gal = NoGalois
    /\ nt = NoTransform
    /\ thr = NoThreads
    /\ lp = Idle

LoopStep(next) ==
    /\ lp' = next
    /\ UNCHANGED <<scheme, ct, out, last, ar, many, gal, nt, thr, rl, gs, mp, cv, sq, ks, da, tr>>

\* ciphertexts a walk starts from
WalkInputs ==
    {Ciphertext(2, pid, ntt, sc, 0) :
        pid \in ParmsIds \cup {parms_id_zero}, ntt \in BOOLEAN,
        sc \in {InitialScale(scheme), Scale(125, 1)}}

\* mod_switch_to_inplace(Ciphertext &): the checks before the loop
StartModSwitchTo ==
    /\ lp.pc = "idle"
    /\ \E c \in WalkInputs, target \in TargetInputs :
          LoopStep([Idle EXCEPT
                      !.op = "mod_switch_to_inplace", !.c = c, !.target = target,
                      !.pc = IF \/ ~has_context_data(c.parms_id)
                                \/ ~has_context_data(target)
                                \/ switch_target_above(c.parms_id, target)
                             THEN "raised" ELSE "walk"])

\* one evaluation of while (encrypted.parms_id() != parms_id) and its body
StepModSwitchTo ==
    /\ lp.pc = "walk" /\ lp.op = "mod_switch_to_inplace"
    /\ IF lp.c.parms_id = lp.target
       THEN LoopStep([lp EXCEPT !.pc = "returned"])
       ELSE \E ub \in UbChoices(lp.c.scale) :
               LET r == mod_switch_to_next(scheme, lp.c, lp.c, ub)
               IN LoopStep([lp EXCEPT !.c = r.c, !.iters = lp.iters + 1,
                                      !.pc = IF r.outcome = OK THEN "walk" ELSE "raised"])

\* mod_switch_to_inplace(Plaintext &)
StartModSwitchToPlain ==
    /\ lp.pc = "idle"
    /\ \E pid \in ParmsIds \cup {parms_id_zero}, ntt \in BOOLEAN, target \in TargetInputs :
          LoopStep([Idle EXCEPT
                      !.op = "mod_switch_to_inplace_plain",
                      !.c = Plaintext(pid, ntt, InitialScale(scheme)), !.target = target,
                      !.pc = IF \/ ~has_context_data(pid)
                                \/ ~has_context_data(target)
                                \/ ~ntt
                                \/ switch_target_above(pid, target)
                             THEN "raised" ELSE "walk"])

StepModSwitchToPlain ==
    /\ lp.pc = "walk" /\ lp.op = "mod_switch_to_inplace_plain"
    /\ IF lp.c.parms_id = lp.target
       THEN LoopStep([lp EXCEPT !.pc = "returned"])
       ELSE \E ub \in UbChoices(lp.c.scale) :
               LET r == mod_switch_drop_to_next_plain(lp.c, ub)
               IN LoopStep([lp EXCEPT !.c = r.c, !.iters = lp.iters + 1,
                                      !.pc = IF r.outcome = OK THEN "walk" ELSE "raised"])

\* rescale_to_inplace: the checks before the loop
StartRescaleTo ==
    /\ lp.pc = "idle"
    /\ \E c \in WalkInputs, target \in TargetInputs :
          LoopStep([Idle EXCEPT
                      !.op = "rescale_to_inplace", !.c = c, !.target = target,
                      !.pc = IF \/ ~is_valid_for(c)
                                \/ ~has_context_data(target)
                                \/ rescale_target_above(c.parms_id, target)
                                \/ scheme = "BFV"
                             THEN "raised" ELSE "walk"])

StepRescaleTo ==
    /\ lp.pc = "walk" /\ lp.op = "rescale_to_inplace"
    /\ IF lp.c.parms_id = lp.target
       THEN LoopStep([lp EXCEPT !.pc = "returned"])
       ELSE LET r == mod_switch_scale_to_next(scheme, lp.c, lp.c)
            IN LoopStep([lp EXCEPT !.c = r.c, !.iters = lp.iters + 1,
                                   !.pc = IF r.outcome = OK THEN "walk" ELSE "raised"])

\* multiply_many: the checks, and the return for a single input
StartMultiplyMany ==
    /\ lp.pc = "idle"
    /\ \E cs \in MultiplyManyInputs(scheme), keys \in KeyInputs :
          \E alias \in AliasInputs(cs) :
             LoopStep([Idle EXCEPT
                         !.op = "multiply_many", !.keys = keys,
                         !.items = [k \in 1..Len(cs) |-> Item(cs[k], UnitFactor(Len(cs), k))],
                         !.pc = IF Len(cs) = 0 \/ alias # 0 THEN "raised"
                                ELSE IF ~has_context_data(cs[1].parms_id) THEN "raised"
                                ELSE IF scheme # "BFV" THEN "raised"
                                ELSE IF Len(cs) = 1 THEN "returned"
                                ELSE "first"])

\* one evaluation of the first loop's condition and body; on exit the odd
\* leftover is appended
StepFirstLevel ==
    /\ lp.pc = "first"
    /\ IF lp.i >= Len(lp.items) - 1
       THEN LoopStep([lp EXCEPT !.vec = lp.vec \o multiply_many_leftover(lp.items),
                                !.i = 0, !.pc = "product"])
       ELSE LET r == multiply_relinearize(scheme, lp.items[lp.i + 1], lp.items[lp.i + 2],
                                          lp.keys,
                                          same_data(lp.items[lp.i + 1].c,
                                                    lp.items[lp.i + 2].c))
            IN LoopStep(IF r.outcome # OK
                        THEN [lp EXCEPT !.pc = "raised"]
                        ELSE [lp EXCEPT !.vec = Append(lp.vec, r.item), !.i = lp.i + 2,
                                        !.iters = lp.iters + 1])

\* one evaluation of the second loop's condition and body
StepProductLoop ==
    /\ lp.pc = "product"
    /\ IF lp.i >= Len(lp.vec) - 1
       THEN LoopStep([lp EXCEPT !.pc = "returned"])
       ELSE /\ Len(lp.vec) < ProductVecCap
            /\ LET r == multiply_relinearize(scheme, lp.vec[lp.i + 1], lp.vec[lp.i + 2],
                                             lp.keys, FALSE)
               IN LoopStep(IF r.outcome # OK
                           THEN [lp EXCEPT !.pc = "raised"]
                           ELSE [lp EXCEPT !.vec = Append(lp.vec, r.item),
                                           !.i = product_loop_advance(lp.i),
                                           !.iters = lp.iters + 1])

\* rotate_internal is called
StartRotate ==
    /\ lp.pc = "idle"
    /\ \E steps \in StepInputs, keys \in GaloisKeyInputs, sz \in OperandSizes,
          batching \in BOOLEAN, checked \in BOOLEAN :
          LoopStep([Idle EXCEPT
                      !.op = "rotate_internal", !.keys = keys,
                      !.c = Ciphertext(sz, first_parms_id, SchemeNttForm(scheme),
                                       InitialScale(scheme), 0),
                      !.batching = batching, !.checked = checked,
                      !.stack = <<CallFrame(steps)>>, !.pc = "rotate"])

\* the innermost rotate_internal call runs up to its next call or its end
StepRotate ==
    /\ lp.pc = "rotate"
    /\ IF lp.stack = <<>>
       THEN LoopStep([lp EXCEPT !.pc = "returned"])
       ELSE LET top == lp.stack[Len(lp.stack)]
                below == SubSeq(lp.stack, 1, Len(lp.stack) - 1)
                steps == top.steps
            IN IF top.kind = "call"
               THEN IF \/ ~has_context_data(lp.c.parms_id)
                       \/ ~lp.batching
                       \/ lp.keys.parms_id # key_parms_id
                       \/ (steps # 0 /\ lp.checked /\ step_too_large(steps))
                    THEN LoopStep([lp EXCEPT !.pc = "raised"])
                    ELSE IF steps = 0
                    THEN LoopStep([lp EXCEPT !.stack = below])
                    ELSE IF has_key(lp.keys, get_elt_from_step(steps))
                    THEN LET r == apply_galois_inplace(scheme, Rotated(lp.c, 1, <<>>, 0),
                                                       get_elt_from_step(steps), lp.keys)
                         IN LoopStep(IF r.outcome # OK
                                     THEN [lp EXCEPT !.c = r.g.c, !.pc = "raised"]
                                     ELSE [lp EXCEPT !.c = r.g.c, !.stack = below,
                                                     !.iters = lp.iters + 1])
                    ELSE IF Len(naf(steps)) = 1
                    THEN LoopStep([lp EXCEPT !.pc = "raised"])
                    ELSE LoopStep([lp EXCEPT !.stack = Append(below, LoopFrame(naf(steps), 1))])
               ELSE IF top.i > Len(top.naf_steps)
                    THEN LoopStep([lp EXCEPT !.stack = below])
                    ELSE IF naf_term_skipped(top.naf_steps[top.i])
                    THEN LoopStep([lp EXCEPT
                                     !.stack = Append(below,
                                                      LoopFrame(top.naf_steps, top.i + 1))])
                    ELSE LoopStep([lp EXCEPT
                                     !.stack = Append(Append(below,
                                                             LoopFrame(top.naf_steps,
                                                                       top.i + 1)),
                                                      CallFrame(top.naf_steps[top.i]))])

NextLoops ==
    \/ StartModSwitchTo
    \/ StepModSwitchTo
    \/ StartModSwitchToPlain
    \/ StepModSwitchToPlain
    \/ StartRescaleTo
    \/ StepRescaleTo
    \/ StartMultiplyMany
    \/ StepFirstLevel
    \/ StepProductLoop
    \/ StartRotate
    \/ StepRotate

SpecLoops == InitLoops /\ [][NextLoops]_vars

\* the steps of a call that has been made
RunningCall ==
    \/ StepModSwitchTo
    \/ StepModSwitchToPlain
    \/ StepRescaleTo
    \/ StepFirstLevel
    \/ StepProductLoop
    \/ StepRotate

\* an operation runs start-to-finish on the calling thread with no
\* suspension point: a call that can take a step takes one
FairLoops == SpecLoops /\ WF_vars(RunningCall)

(***************************************************************************)
(* Properties of FairLoops                                                 *)
(***************************************************************************)
\* C20: every call of mod_switch_to_inplace (ciphertext and plaintext),
\* rescale_to_inplace, multiply_many and rotate_internal ends, returning or
\* raising, after finitely many iterations of its loop or recursion.
C20_CallsTerminate == (lp.pc # "idle") ~> (lp.pc \in {"returned", "raised"})

\* a walk over two chain points, a product of products and a rotation made
\* of two NAF terms have each ended
C20_Witness ==
    /\ lp.pc = "returned"
    /\ lp.iters >= 2
    /\ \/ lp.op \in {"mod_switch_to_inplace", "mod_switch_to_inplace_plain",
                     "rescale_to_inplace"}
       \/ lp.op = "multiply_many" /\ Len(lp.vec) >= 3
       \/ lp.op = "rotate_internal"

(***************************************************************************)
(* SpecRelin: the key switches of relinearize_internal                     *)
(***************************************************************************)
\* one call of switch_key_inplace: the polynomial of encrypted that target
\* points to, and the index of the key
KeySwitch(target, index) == [target |-> target, index |-> index]

RelinIdle ==
    [op |-> "none", pc |-> "idle", c |-> EmptyCiphertext, pre |-> EmptyCiphertext,
     keys |-> NoKeys, destination_size |-> 0, encrypted_size |-> 0,
     encrypted_iter |-> 0, relins_needed |-> 0, i |-> 0, switched |-> <<>>]

RelinSizes == 2..MaxSize

InitRelin ==
    /\ scheme \in Schemes
    /\ ct = EmptyCiphertext
    /\ out = EmptyCiphertext
    /\ last = NoCall
    /\ tr = NoTree
    /\ da = NoDecompose
    /\ ks = NoKeySwitch
    /\ sq = NoSquare
    /\ cv = NoConvolution
    /\ mp = NoPlainMul
    /\ gs = NoGaloisSteps
    /\ ar = NoArith
    /\ many = NoMany
    /\ gal = NoGalois
    /\ nt = NoTransform
    /\ thr = NoThreads
    /\ lp = NoLoop
    /\ rl = RelinIdle

RelinStep(next) ==
    /\ rl' = next
    /\ UNCHANGED <<scheme, ct, out, last, ar, many, gal, nt, thr, lp, gs, mp, cv, sq, ks, da, tr>>

\* relinearize_internal up to the loop: the checks, the early return,
\* relins_needed, and encrypted_iter advanced to the last polynomial
RelinearizeBegin ==
    /\ rl.pc = "idle"
    /\ \E sz \in RelinSizes, pid \in DataParmsIds \cup {parms_id_zero},
          keys \in KeyInputs, destination_size \in 1..(MaxSize + 1) :
          LET e == Ciphertext(sz, pid, SchemeNttForm(scheme), InitialScale(scheme), 0)
              call == [RelinIdle EXCEPT !.op = "relinearize_internal", !.c = e, !.pre = e,
                                        !.keys = keys,
                                        !.destination_size = destination_size,
                                        !.encrypted_size = sz]
          IN RelinStep(IF \/ ~has_context_data(pid)
                          \/ keys.parms_id # key_parms_id
                          \/ destination_size < 2 \/ destination_size > sz
                          \/ keys.size < sz - 2
                       THEN [call EXCEPT !.pc = "raised"]
                       ELSE IF destination_size = sz
                       THEN [call EXCEPT !.pc = "returned"]
                       ELSE [call EXCEPT !.pc = "loop",
                                         !.relins_needed = sz - destination_size,
                                         !.encrypted_iter = sz - 1])

\* one evaluation of i < relins_needed and of the body: switch_key_inplace
\* on *encrypted_iter, then encrypted_size--; on exit the resize
RelinearizeLoop ==
    /\ rl.pc = "loop"
    /\ IF rl.i >= rl.relins_needed
       THEN RelinStep([rl EXCEPT !.c = resize(rl.c, rl.c.parms_id,
                                              relinearize_final_size(rl.pre.size,
                                                                     rl.destination_size)),
                                 !.pc = "returned"])
       ELSE LET index == relin_get_index(rl.encrypted_size - 1)
                r == switch_key_inplace(scheme, rl.c, rl.keys, index)
            IN RelinStep(IF r.outcome # OK
                         THEN [rl EXCEPT !.pc = "raised"]
                         ELSE [rl EXCEPT !.c = r.c,
                                         !.switched = Append(rl.switched,
                                                             KeySwitch(rl.encrypted_iter,
                                                                       index)),
                                         !.encrypted_size = rl.encrypted_size - 1,
                                         !.i = rl.i + 1])

NextRelin ==
    \/ RelinearizeBegin
    \/ RelinearizeLoop

SpecRelin == InitRelin /\ [][NextRelin]_vars

(***************************************************************************)
(* Properties of SpecRelin                                                 *)
(***************************************************************************)
\* number of key switches that were given polynomial j
TimesSwitched(j) == Cardinality({k \in 1..Len(rl.switched) : rl.switched[k].target = j})

\* C21: in a relinearization from size s down to d with s - d >= 2, the i-th
\* key switch is given the highest remaining polynomial c_{s-1-i} and the key
\* for the current size s - i, so that when the call returns every c_j with
\* d <= j < s has been key-switched exactly once.
C21_RelinearizeTargets ==
    LET s == rl.pre.size
        d == rl.destination_size
    IN (rl.op = "relinearize_internal" /\ rl.pc \in {"loop", "returned"} /\ s - d >= 2)
       => /\ \A k \in 1..Len(rl.switched) :
                /\ rl.switched[k].target = s - k
                /\ rl.switched[k].index = relin_get_index(s - k)
          /\ rl.pc = "returned" => \A j \in d..(s - 1) : TimesSwitched(j) = 1

(***************************************************************************)
(* SpecGaloisSteps: the statements of apply_galois_inplace                 *)
(***************************************************************************)
\* contents of a polynomial buffer: the polynomial the caller passed in, its
\* image under the automorphism, all zero, or whatever allocate_poly returned
OriginalPoly(i) == <<"c", i>>

GaloisImage(galois_elt, poly) == <<"galois", galois_elt, poly>>

ZeroedPoly == <<"zero">>

UninitializedPoly == <<"uninitialized">>

second_helper_input_first(c_0, c_1) == c_0

\* *encrypted_iter after the post-increment of the first helper call
second_helper_input(c_0, c_1) == c_1

GaloisIdle ==
    [op |-> "none", pc |-> "idle", outcome |-> OK, c |-> EmptyCiphertext,
     c_0 |-> OriginalPoly(0), c_1 |-> OriginalPoly(1), temp |-> UninitializedPoly,
     galois_elt |-> 1, keys |-> GaloisKeys(parms_id_zero, {}), bad |-> FALSE,
     done |-> <<>>]

InitGaloisSteps ==
    /\ scheme \in Schemes
    /\ ct = EmptyCiphertext
    /\ out = EmptyCiphertext
    /\ last = NoCall
    /\ tr = NoTree
    /\ da = NoDecompose
    /\ ks = NoKeySwitch
    /\ sq = NoSquare
    /\ cv = NoConvolution
    /\ mp = NoPlainMul
    /\ ar = NoArith
    /\ many = NoMany
    /\ gal = NoGalois
    /\ nt = NoTransform
    /\ thr = NoThreads
    /\ lp = NoLoop
    /\ rl = NoRelin
    /\ gs = GaloisIdle

GaloisStep(next) ==
    /\ gs' = next
    /\ UNCHANGED <<scheme, ct, out, last, ar, many, gal, nt, thr, lp, rl, mp, cv, sq, ks, da, tr>>

Did(g, statement) == [g EXCEPT !.done = Append(g.done, statement)]

\* apply_galois_inplace up to the allocation of temp: the checks
GaloisBegin ==
    /\ gs.pc = "idle"
    /\ \E sz \in OperandSizes, pid \in DataParmsIds \cup {key_parms_id},
          ntt \in BOOLEAN, keys \in GaloisKeyInputs, galois_elt \in EltInputs,
          bad \in BOOLEAN :
          LET e == Ciphertext(sz, pid, ntt, InitialScale(scheme), 0)
              call == [GaloisIdle EXCEPT !.op = "apply_galois_inplace", !.c = e,
                                         !.galois_elt = galois_elt, !.keys = keys,
                                         !.bad = bad]
          IN GaloisStep(IF ~is_valid_for(e)
                        THEN [call EXCEPT !.pc = "raised", !.outcome = IA]
                        ELSE IF keys.parms_id # key_parms_id
                        THEN [call EXCEPT !.pc = "raised", !.outcome = IA]
                        ELSE IF ~has_key(keys, galois_elt)
                        THEN [call EXCEPT !.pc = "raised", !.outcome = IA]
                        ELSE IF galois_elt_invalid(galois_elt, 2 * poly_modulus_degree)
                        THEN [call EXCEPT !.pc = "raised", !.outcome = IA]
                        ELSE IF galois_size_rejected(sz)
                        THEN [call EXCEPT !.pc = "raised", !.outcome = IA]
                        ELSE [call EXCEPT !.pc = "first"])

\* apply_galois_helper(*encrypted_iter++, temp_iter)
GaloisFirstHelper ==
    /\ gs.pc = "first"
    /\ GaloisStep(Did([gs EXCEPT !.temp = GaloisImage(gs.galois_elt, gs.c_0),
                                 !.pc = "copy"],
                      "permute c_0"))

\* set_poly_poly(temp.get(), coeff_count, coeff_modulus_count, encrypted.data(0))
GaloisCopy ==
    /\ gs.pc = "copy"
    /\ GaloisStep(Did([gs EXCEPT !.c_0 = gs.temp, !.pc = "second"], "copy to c_0"))

\* apply_galois_helper(*encrypted_iter, temp_iter)
GaloisSecondHelper ==
    /\ gs.pc = "second"
    /\ GaloisStep(Did([gs EXCEPT !.temp = GaloisImage(gs.galois_elt,
                                                      second_helper_input(gs.c_0, gs.c_1)),
                                 !.pc = "wipe"],
                      "permute c_1"))

\* set_zero_poly(coeff_count, coeff_modulus_count, encrypted.data(1))
GaloisWipe ==
    /\ gs.pc = "wipe"
    /\ GaloisStep(Did([gs EXCEPT !.c_1 = ZeroedPoly, !.pc = "switch_key"], "zero c_1"))

\* switch_key_inplace(encrypted, temp_iter, galois_keys, get_index(galois_elt)),
\* with its own checks, then the transparent-result guard
GaloisSwitchKey ==
    /\ gs.pc = "switch_key"
    /\ LET index == galois_get_index(gs.galois_elt)
           r == switch_key_inplace(scheme, gs.c,
                                   KSwitchKeys(gs.keys.parms_id, index + 1,
                                               IF gs.bad THEN index ELSE -1),
                                   index)
       IN GaloisStep(IF r.outcome # OK
                     THEN [gs EXCEPT !.pc = "raised", !.outcome = r.outcome]
                     ELSE Did([gs EXCEPT !.c = r.c, !.pc = "returned",
                                         !.c_0 = <<"switched", 0, gs.c_0, gs.temp>>,
                                         !.c_1 = <<"switched", 1, gs.c_1, gs.temp>>],
                              "switch key"))

NextGaloisSteps ==
    \/ GaloisBegin
    \/ GaloisFirstHelper
    \/ GaloisCopy
    \/ GaloisSecondHelper
    \/ GaloisWipe
    \/ GaloisSwitchKey

SpecGaloisSteps == InitGaloisSteps /\ [][NextGaloisSteps]_vars

(***************************************************************************)
(* Properties of SpecGaloisSteps                                           *)
(***************************************************************************)
\* C22: under BFV and CKKS alike, apply_galois_inplace permutes c_0 into the
\* scratch buffer, copies the scratch buffer to c_0, permutes c_1 into the
\* scratch buffer, zeroes c_1, and only then switches keys: when key switching
\* starts, c_0 is the image of the original c_0, c_1 is zero and the scratch
\* buffer is the image of the original c_1.
C22_GaloisOrder ==
    /\ gs.done \in {SubSeq(<<"permute c_0", "copy to c_0", "permute c_1", "zero c_1",
                             "switch key">>, 1, n) : n \in 0..5}
    /\ gs.pc = "switch_key"
       => /\ gs.done = <<"permute c_0", "copy to c_0", "permute c_1", "zero c_1">>
          /\ gs.c_0 = GaloisImage(gs.galois_elt, OriginalPoly(0))
          /\ gs.c_1 = ZeroedPoly
          /\ gs.temp = GaloisImage(gs.galois_elt, OriginalPoly(1))

C22_Witness ==
    /\ gs.pc = "switch_key"
    /\ scheme = "CKKS"
    /\ gs.galois_elt = 3
    /\ gs.temp = GaloisImage(3, OriginalPoly(1))

\* C28: when apply_galois_inplace raises because of a check made inside key
\* switching, the ciphertext is as it was before the call: c_0 is not
\* permuted and c_1 is not zeroed.
C28_GaloisAtomic ==
    (gs.pc = "raised" /\ gs.done # <<>>)
    => (gs.c_0 = OriginalPoly(0) /\ gs.c_1 = OriginalPoly(1))

(***************************************************************************)
(* multiply_plain_normal on polynomial data                                *)
(***************************************************************************)
\* context_data.plain_upper_half_threshold(): (t + 1) >> 1
plain_upper_half_threshold(t) == (t + 1) \div 2

\* qualifiers().using_fast_plain_lift: every prime of the point exceeds t
using_fast_plain_lift(pid, t) ==
    \A j \in 1..coeff_modulus_count(pid) : coeff_modulus(pid)[j] > t

\* context_data.plain_upper_half_increment(): q_j - t for each prime with
\* fast lift, the multi-precision integer q - t without
plain_upper_half_increment(pid, t) ==
    IF using_fast_plain_lift(pid, t)
    THEN [j \in 1..coeff_modulus_count(pid) |-> coeff_modulus(pid)[j] - t]
    ELSE SeqProduct(coeff_modulus(pid)) - t

\* util::negacyclic_multiply_poly_mono_coeffmod: poly * mono_coeff * x^mono_exponent
\* modulo x^N + 1 and q
negacyclic_multiply_poly_mono_coeffmod(poly, mono_coeff, mono_exponent, q) ==
    [k \in 1..CoeffCount |->
        LET from == ((k - 1 - mono_exponent) % CoeffCount) + 1
            wrapped == k - 1 < mono_exponent
            product == (poly[from] * mono_coeff) % q
        IN IF wrapped THEN (q - product) % q ELSE product]

\* forward NTT, dyadic product and inverse NTT of a component: the negacyclic
\* product of the two polynomials modulo q
RECURSIVE negacyclic_product(_, _, _, _)
negacyclic_product(poly, lifted, q, i) ==
    IF i > CoeffCount
    THEN [k \in 1..CoeffCount |-> 0]
    ELSE add_poly_poly_coeffmod(
             negacyclic_multiply_poly_mono_coeffmod(poly, lifted[i] % q, i - 1, q),
             negacyclic_product(poly, lifted, q, i + 1), q)

\* plain.nonzero_coeff_count()
nonzero_coeff_count(plain) == Cardinality({k \in 1..Len(plain) : plain[k] # 0})

\* plain.significant_coeff_count(): one past the highest nonzero coefficient
significant_coeff_count(plain) ==
    IF nonzero_coeff_count(plain) = 0 THEN 0
    ELSE CHOOSE k \in 1..Len(plain) :
            plain[k] # 0 /\ \A h \in (k + 1)..Len(plain) : plain[h] = 0

\* the scalar *get<1>(J) that rns_monomial_multiply or the positive branch
\* passes for prime j (0-based): temp[j] after decompose, plain.data()[j],
\* or plain[mono_exponent]
monomial_scalar(pid, t, plain, mono_exponent, j) ==
    IF plain[mono_exponent + 1] >= plain_upper_half_threshold(t)
    THEN IF ~using_fast_plain_lift(pid, t)
         THEN (plain_upper_half_increment(pid, t) + plain[mono_exponent + 1])
                  % coeff_modulus(pid)[j + 1]
         ELSE plain[j + 1]
    ELSE plain[mono_exponent + 1]

\* the monomial branch on one polynomial of encrypted
multiply_plain_monomial(pid, t, poly, plain) ==
    LET mono_exponent == significant_coeff_count(plain) - 1
    IN [j \in 1..coeff_modulus_count(pid) |->
           negacyclic_multiply_poly_mono_coeffmod(
               poly[j], monomial_scalar(pid, t, plain, mono_exponent, j - 1),
               mono_exponent, coeff_modulus(pid)[j])]

\* temp after the lift of the generic branch: the residues modulo q_j of the
\* lifted coefficients
generic_lift(pid, t, plain) ==
    [j \in 1..coeff_modulus_count(pid) |->
        [k \in 1..CoeffCount |->
            IF plain[k] >= plain_upper_half_threshold(t)
            THEN IF using_fast_plain_lift(pid, t)
                 THEN plain[k] + plain_upper_half_increment(pid, t)[j]
                 ELSE (plain_upper_half_increment(pid, t) + plain[k])
                          % coeff_modulus(pid)[j]
            ELSE plain[k] % coeff_modulus(pid)[j]]]

\* the generic branch on one polynomial of encrypted
multiply_plain_generic(pid, t, poly, plain) ==
    [j \in 1..coeff_modulus_count(pid) |->
        negacyclic_product(poly[j], generic_lift(pid, t, plain)[j],
                           coeff_modulus(pid)[j], 1)]

\* multiply_plain_normal on the contents of one polynomial of encrypted
multiply_plain_normal_rns(pid, t, poly, plain) ==
    IF nonzero_coeff_count(plain) = 1
    THEN multiply_plain_monomial(pid, t, poly, plain)
    ELSE multiply_plain_generic(pid, t, poly, plain)

(***************************************************************************)
(* SpecPlain                                                               *)
(***************************************************************************)
\* plain moduli of the contexts followed: one below every prime, two above
\* the smallest prime
PlainModuli == {3, 7, 11}

\* parameter points with room for t and no more primes than coefficients
PlainParmsIds(t) ==
    {pid \in DataParmsIds : /\ SeqProduct(coeff_modulus(pid)) > t
                            /\ coeff_modulus_count(pid) <= CoeffCount}

\* plaintexts of CoeffCount coefficients below t
MonomialAndDenseInputs(t) ==
    {plain \in [1..CoeffCount -> 0..(t - 1)] :
        \/ nonzero_coeff_count(plain) = 1
        \/ \A k \in 1..CoeffCount : plain[k] \in {1, t - 1}}

PlainIdle ==
    [op |-> "none", outcome |-> OK, parms_id |-> parms_id_zero, plain_modulus |-> 0,
     plain |-> <<>>, pre |-> <<>>, poly |-> <<>>, path |-> "none"]

InitPlain ==
    /\ scheme = "BFV"
    /\ ct = EmptyCiphertext
    /\ out = EmptyCiphertext
    /\ last = NoCall
    /\ tr = NoTree
    /\ da = NoDecompose
    /\ ks = NoKeySwitch
    /\ sq = NoSquare
    /\ cv = NoConvolution
    /\ ar = NoArith
    /\ many = NoMany
    /\ gal = NoGalois
    /\ nt = NoTransform
    /\ thr = NoThreads
    /\ lp = NoLoop
    /\ rl = NoRelin
    /\ gs = NoGaloisSteps
    /\ mp = PlainIdle

\* multiply_plain_normal(encrypted, plain) for a coefficient-form ciphertext
\* and plaintext of scale 1
MultiplyPlainNormal ==
    /\ mp.op = "none"
    /\ \E t \in PlainModuli :
       \E pid \in PlainParmsIds(t), plain \in MonomialAndDenseInputs(t), n \in 2..Len(SampleValues) :
          LET e == Ciphertext(2, pid, FALSE, Scale(1, 1), 0)
              r == multiply_plain_normal(e, Plaintext(parms_id_zero, FALSE, Scale(1, 1)), FALSE)
              poly == SamplePoly(n, pid)
          IN /\ mp' = [op |-> "multiply_plain_normal", outcome |-> r.outcome,
                       parms_id |-> pid, plain_modulus |-> t, plain |-> plain,
                       pre |-> poly,
                       poly |-> IF r.outcome = OK
                                THEN multiply_plain_normal_rns(pid, t, poly, plain)
                                ELSE poly,
                       path |-> IF r.outcome # OK THEN "none"
                                ELSE IF nonzero_coeff_count(plain) = 1 THEN "monomial"
                                ELSE "generic"]
             /\ UNCHANGED <<scheme, ct, out, last, ar, many, gal, nt, thr, lp, rl, gs, cv, sq, ks, da, tr>>

NextPlain == MultiplyPlainNormal

SpecPlain == InitPlain /\ [][NextPlain]_vars

(***************************************************************************)
(* Properties of SpecPlain                                                 *)
(***************************************************************************)
\* the lift of plaintext coefficient a modulo prime j (1-based) of the point
LiftOf(pid, t, a, j) ==
    IF a < plain_upper_half_threshold(t) THEN a % coeff_modulus(pid)[j]
    ELSE (a + SeqProduct(coeff_modulus(pid)) - t) % coeff_modulus(pid)[j]

\* C23: in the monomial path of multiply_plain_normal the scalar used for
\* prime q_j is the lift of the coefficient a: a below the threshold, else
\* a + plain_upper_half_increment modulo q_j, with and without
\* using_fast_plain_lift; the result equals that of the generic path.
C23_MonomialLift ==
    mp.path = "monomial"
    => LET pid == mp.parms_id
           t == mp.plain_modulus
           e == significant_coeff_count(mp.plain) - 1
       IN /\ \A j \in 1..coeff_modulus_count(pid) :
                monomial_scalar(pid, t, mp.plain, e, j - 1) % coeff_modulus(pid)[j]
                    = LiftOf(pid, t, mp.plain[e + 1], j)
          /\ mp.poly = multiply_plain_generic(pid, t, mp.pre, mp.plain)

(***************************************************************************)
(* SpecConv: the convolution loops of bfv_multiply and ckks_multiply       *)
(***************************************************************************)
\* min(secret_power_index, encrypted1_size - 1)
curr_encrypted1_last(secret_power_index, encrypted1_size) ==
    Min(secret_power_index, encrypted1_size - 1)

curr_encrypted2_first_past_end(secret_power_index, encrypted2_size) ==
    Min(secret_power_index, encrypted2_size)

\* min(secret_power_index, encrypted2_size - 1)
curr_encrypted2_first(secret_power_index, encrypted2_size) ==
    Min(secret_power_index, encrypted2_size - 1)

\* secret_power_index - curr_encrypted2_first
curr_encrypted1_first(secret_power_index, encrypted2_size) ==
    secret_power_index - curr_encrypted2_first(secret_power_index, encrypted2_size)

\* curr_encrypted1_last - curr_encrypted1_first + 1
convolution_steps(secret_power_index, encrypted1_size, encrypted2_size) ==
    curr_encrypted1_last(secret_power_index, encrypted1_size)
        - curr_encrypted1_first(secret_power_index, encrypted2_size) + 1

\* one dyadic product: polynomial in1 of encrypted1 times polynomial in2 of
\* encrypted2, added to polynomial out of the result, in the given base
DyadicProduct(base, in1, in2, out_index) ==
    [base |-> base, in1 |-> in1, in2 |-> in2, out |-> out_index]

\* the bases behz_ciphertext_product is run for, in order
ProductBases(sch) == IF sch = "BFV" THEN <<"q", "Bsk">> ELSE <<"q">>

ConvIdle ==
    [op |-> "none", pc |-> "idle", encrypted1_size |-> 0, encrypted2_size |-> 0,
     dest_size |-> 0, secret_power_index |-> 0, base |-> 1, step |-> 0,
     products |-> <<>>]

InitConv ==
    /\ scheme \in Schemes
    /\ ct = EmptyCiphertext
    /\ out = EmptyCiphertext
    /\ last = NoCall
    /\ tr = NoTree
    /\ da = NoDecompose
    /\ ks = NoKeySwitch
    /\ sq = NoSquare
    /\ ar = NoArith
    /\ many = NoMany
    /\ gal = NoGalois
    /\ nt = NoTransform
    /\ thr = NoThreads
    /\ lp = NoLoop
    /\ rl = NoRelin
    /\ gs = NoGaloisSteps
    /\ mp = NoPlainMul
    /\ cv = ConvIdle

ConvStep(next) ==
    /\ cv' = next
    /\ UNCHANGED <<scheme, ct, out, last, ar, many, gal, nt, thr, lp, rl, gs, mp, sq, ks, da, tr>>

\* bfv_multiply / ckks_multiply reach the convolution with two valid
\* operands; dest_size = encrypted1_size + encrypted2_size - 1
ConvolutionBegin ==
    /\ cv.pc = "idle"
    /\ \E encrypted1_size \in 2..MaxSize, encrypted2_size \in 2..MaxSize :
          ConvStep([ConvIdle EXCEPT
                      !.op = IF scheme = "BFV" THEN "bfv_multiply" ELSE "ckks_multiply",
                      !.pc = "product",
                      !.encrypted1_size = encrypted1_size,
                      !.encrypted2_size = encrypted2_size,
                      !.dest_size = multiply_dest_size(encrypted1_size, encrypted2_size)])

\* one dyadic_product_coeffmod / add_poly_poly_coeffmod of the for_each_n over
\* steps, or the move to the next base or the next secret_power_index
ConvolutionProduct ==
    /\ cv.pc = "product"
    /\ LET d == cv.secret_power_index
           steps == convolution_steps(d, cv.encrypted1_size, cv.encrypted2_size)
       IN IF d >= cv.dest_size
          THEN ConvStep([cv EXCEPT !.pc = "done"])
          ELSE IF cv.step < steps
          THEN ConvStep([cv EXCEPT
                           !.products =
                               Append(cv.products,
                                      DyadicProduct(
                                          ProductBases(scheme)[cv.base],
                                          curr_encrypted1_first(d, cv.encrypted2_size) + cv.step,
                                          curr_encrypted2_first(d, cv.encrypted2_size) - cv.step,
                                          d)),
                           !.step = cv.step + 1])
          ELSE IF cv.base < Len(ProductBases(scheme))
          THEN ConvStep([cv EXCEPT !.base = cv.base + 1, !.step = 0])
          ELSE ConvStep([cv EXCEPT !.secret_power_index = d + 1, !.base = 1, !.step = 0])

NextConv ==
    \/ ConvolutionBegin
    \/ ConvolutionProduct

SpecConv == InitConv /\ [][NextConv]_vars

(***************************************************************************)
(* Properties of SpecConv                                                  *)
(***************************************************************************)
\* positions in cv.products of the products of one base into one output
ProductsInto(base, d) ==
    {k \in 1..Len(cv.products) : cv.products[k].base = base /\ cv.products[k].out = d}

\* C24: in bfv_multiply and ckks_multiply the products accumulated into
\* output d are exactly the pairs (i, j) with i + j = d, 0 <= i < s1,
\* 0 <= j < s2, each once, i ascending from d - min(d, s2 - 1) and j
\* descending from min(d, s2 - 1); no index outside the operands is read and
\* every pair contributes to exactly one output.
C24_ConvolutionCoverage ==
    LET s1 == cv.encrypted1_size
        s2 == cv.encrypted2_size
        P == cv.products
    IN /\ \A k \in 1..Len(P) :
             /\ P[k].in1 \in 0..(s1 - 1)
             /\ P[k].in2 \in 0..(s2 - 1)
             /\ P[k].out \in 0..(s1 + s2 - 2)
             /\ P[k].in1 + P[k].in2 = P[k].out
       /\ \A k, h \in 1..Len(P) :
             (k < h /\ P[k].base = P[h].base /\ P[k].out = P[h].out)
             => (P[k].in1 < P[h].in1 /\ P[k].in2 > P[h].in2)
       /\ \A k \in 1..Len(P) :
             (\A h \in 1..(k - 1) : P[h].base # P[k].base \/ P[h].out # P[k].out)
             => (P[k].in2 = Min(P[k].out, s2 - 1) /\ P[k].in1 = P[k].out - P[k].in2)
       /\ cv.pc = "done"
          => \A b \in 1..Len(ProductBases(scheme)) :
                \A i \in 0..(s1 - 1), j \in 0..(s2 - 1) :
                   Cardinality({k \in 1..Len(P) : /\ P[k].base = ProductBases(scheme)[b]
                                                  /\ P[k].in1 = i /\ P[k].in2 = j}) = 1

C24_Witness ==
    /\ cv.pc = "done"
    /\ cv.encrypted1_size = 3
    /\ cv.encrypted2_size = 2
    /\ scheme = "BFV"
    /\ Cardinality(ProductsInto("Bsk", 2)) = 2

(***************************************************************************)
(* Squaring on polynomial data                                             *)
(***************************************************************************)
\* util::dyadic_product_coeffmod: componentwise product modulo q
dyadic_product_coeffmod(a, b, q) == [k \in 1..Len(a) |-> (a[k] * b[k]) % q]

\* output secret_power_index of the convolution for one prime: the sum of
\* the dyadic products from step onwards
RECURSIVE convolution_output(_, _, _, _, _, _)
convolution_output(polys1, polys2, secret_power_index, j, q, step) ==
    IF step >= convolution_steps(secret_power_index, Len(polys1), Len(polys2))
    THEN [k \in 1..CoeffCount |-> 0]
    ELSE add_poly_poly_coeffmod(
             dyadic_product_coeffmod(
                 polys1[curr_encrypted1_first(secret_power_index, Len(polys2)) + step + 1][j],
                 polys2[curr_encrypted2_first(secret_power_index, Len(polys2)) - step + 1][j],
                 q),
             convolution_output(polys1, polys2, secret_power_index, j, q, step + 1), q)

\* the general routine: every output polynomial, every prime
convolution_rns(polys1, polys2, pid) ==
    [d \in 1..multiply_dest_size(Len(polys1), Len(polys2)) |->
        [j \in 1..coeff_modulus_count(pid) |->
            convolution_output(polys1, polys2, d - 1, j, coeff_modulus(pid)[j], 0)]]

square_cross_term_single(product, q) == product

\* add_poly_poly_coeffmod(out, out, ..., out) after the product c_1 * c_0
square_cross_term(product, q) == add_poly_poly_coeffmod(product, product, q)

\* the size-2 specialization: c_0^2, 2 c_0 c_1, c_1^2
square_size_two_rns(polys, pid) ==
    LET q == coeff_modulus(pid)
    IN <<[j \in 1..Len(q) |-> dyadic_product_coeffmod(polys[1][j], polys[1][j], q[j])],
         [j \in 1..Len(q) |->
             square_cross_term(dyadic_product_coeffmod(polys[2][j], polys[1][j], q[j]), q[j])],
         [j \in 1..Len(q) |-> dyadic_product_coeffmod(polys[2][j], polys[2][j], q[j])]>>

\* encrypted_size != 2 delegates to the multiply routine on (encrypted, encrypted)
square_rns(polys, pid) ==
    IF Len(polys) # 2
    THEN convolution_rns(polys, polys, pid)
    ELSE square_size_two_rns(polys, pid)

(***************************************************************************)
(* SpecSquare                                                              *)
(***************************************************************************)
\* ciphertext contents of size 2 and 3 over the sample polynomials
SquareInputs(pid) ==
    UNION {[1..sz -> {SamplePoly(n, pid) : n \in 1..Len(SampleValues)}] : sz \in OperandSizes}

SquareIdle ==
    [op |-> "none", outcome |-> OK, e |-> EmptyCiphertext, c |-> EmptyCiphertext,
     pre |-> <<>>, polys |-> <<>>, routine |-> "none"]

InitSquare ==
    /\ scheme \in Schemes
    /\ ct = EmptyCiphertext
    /\ out = EmptyCiphertext
    /\ last = NoCall
    /\ tr = NoTree
    /\ da = NoDecompose
    /\ ks = NoKeySwitch
    /\ ar = NoArith
    /\ many = NoMany
    /\ gal = NoGalois
    /\ nt = NoTransform
    /\ thr = NoThreads
    /\ lp = NoLoop
    /\ rl = NoRelin
    /\ gs = NoGaloisSteps
    /\ mp = NoPlainMul
    /\ cv = NoConvolution
    /\ sq = SquareIdle

\* square_inplace(encrypted) on a valid ciphertext in the scheme's form
SquareRns ==
    /\ sq.op = "none"
    /\ \E pid \in ArithParmsIds :
       \E polys \in SquareInputs(pid) :
          LET e == Ciphertext(Len(polys), pid, SchemeNttForm(scheme), InitialScale(scheme), 0)
              r == square_inplace(scheme, e, FALSE)
          IN /\ sq' = [op |-> "square_inplace", outcome |-> r.outcome, e |-> e, c |-> r.c,
                       pre |-> polys,
                       polys |-> IF r.outcome = OK THEN square_rns(polys, pid) ELSE polys,
                       routine |-> IF Len(polys) # 2 THEN "multiply" ELSE "square"]
             /\ UNCHANGED <<scheme, ct, out, last, ar, many, gal, nt, thr, lp, rl, gs, mp, cv, ks, da, tr>>

NextSquare == SquareRns

SpecSquare == InitSquare /\ [][NextSquare]_vars

(***************************************************************************)
(* Properties of SpecSquare                                                *)
(***************************************************************************)
\* C25: for a size-2 ciphertext the squaring specialization (c_0^2,
\* 2 c_0 c_1, c_1^2 modulo each prime) gives the same three polynomials,
\* size and scale as the general convolution of multiply(c, c); for any
\* other size square runs the general multiply routine on (c, c).
C25_SquareIsMultiply ==
    (sq.op = "square_inplace" /\ sq.outcome = OK)
    => LET m == multiply_inplace(scheme, sq.e, sq.e, FALSE)
       IN /\ m.outcome = OK
          /\ sq.polys = convolution_rns(sq.pre, sq.pre, sq.e.parms_id)
          /\ sq.c.size = m.c.size
          /\ sq.c.scale = m.c.scale
          /\ Len(sq.polys) = sq.c.size
          /\ sq.routine = IF sq.e.size = 2 THEN "square" ELSE "multiply"

C25_Witness ==
    /\ sq.op = "square_inplace"
    /\ sq.outcome = OK
    /\ sq.routine = "square"
    /\ sq.e.parms_id # last_parms_id
    /\ sq.pre = <<SamplePoly(3, sq.e.parms_id), SamplePoly(4, sq.e.parms_id)>>
    /\ sq.polys[2] # ZeroPoly(sq.e.parms_id)

(***************************************************************************)
(* switch_key_inplace: lazy accumulation                                   *)
(***************************************************************************)
\* width of the accumulator (two words; 128 in the library)
AccumulatorBits == 12

\* largest bit count of a coefficient modulus prime (60 in the library)
SEAL_USER_MOD_BIT_COUNT_MAX == 5

\* largest number of decomposition primes of a call
MaxDecompModCount == 5

\* one word of the accumulator
WordBits == AccumulatorBits \div 2

\* 1 << (128 - SEAL_USER_MOD_BIT_COUNT_MAX * 2)
lazy_reduction_summand_bound == 2 ^ (AccumulatorBits - SEAL_USER_MOD_BIT_COUNT_MAX * 2)

\* the primes of the key level; the last one in use is the special prime
KeyPrimes == <<3, 5, 7, 11, 13, 17, 19, 23, 29>>

\* key_modulus of a context with decomp_mod_count data primes
key_modulus_of(decomp_mod_count) == SubSeq(KeyPrimes, 1, decomp_mod_count + 1)

\* key_index = (j == decomp_mod_count ? key_mod_count - 1 : j)
key_index_of(j, decomp_mod_count, key_mod_count) ==
    IF j = decomp_mod_count THEN key_mod_count - 1 ELSE j

\* add_uint128(wide_product, accumulator, accumulator): the carry out of the
\* high word is dropped
add_uint128(wide_product, accumulator) == (wide_product + accumulator) % (2 ^ AccumulatorBits)

barrett_reduce_128(accumulator, q) == accumulator % q

\* the test of the accumulation loop that selects the reducing branch
reduce_in_loop(lazy_reduction_counter) == lazy_reduction_counter = 0

\* if (!--lazy_reduction_counter) lazy_reduction_counter = lazy_reduction_summand_bound
next_lazy_reduction_counter(lazy_reduction_counter) ==
    IF lazy_reduction_counter - 1 = 0
    THEN lazy_reduction_summand_bound
    ELSE lazy_reduction_counter - 1

\* the test of the final reduction that selects the copying branch
copy_low_word(lazy_reduction_counter) == lazy_reduction_counter = lazy_reduction_summand_bound

\* static_cast<uint64_t>(*accumulator)
low_word(accumulator) == accumulator % (2 ^ WordBits)

(***************************************************************************)
(* SpecKeySwitch                                                           *)
(***************************************************************************)
\* operand words: reduced values and one lazy NTT output above q, all below
\* 2^SEAL_USER_MOD_BIT_COUNT_MAX
OperandValues(q) == {0, 1, q - 1, q + 1}

\* key words: residues modulo q
KeyValues(q) == {1, q - 1}

KeySwitchIdle ==
    [op |-> "none", pc |-> "idle", decomp_mod_count |-> 0, j |-> 0, q |-> 0, i |-> 0,
     lazy_reduction_counter |-> 0, accumulator |-> 0, unreduced |-> 0, sum |-> 0,
     reductions |-> 0, branch |-> "none", t_poly_prod |-> 0]

InitKeySwitch ==
    /\ scheme \in Schemes
    /\ ct = EmptyCiphertext
    /\ out = EmptyCiphertext
    /\ last = NoCall
    /\ tr = NoTree
    /\ da = NoDecompose
    /\ ar = NoArith
    /\ many = NoMany
    /\ gal = NoGalois
    /\ nt = NoTransform
    /\ thr = NoThreads
    /\ lp = NoLoop
    /\ rl = NoRelin
    /\ gs = NoGaloisSteps
    /\ mp = NoPlainMul
    /\ cv = NoConvolution
    /\ sq = NoSquare
    /\ ks = KeySwitchIdle

KeySwitchStep(k) ==
    /\ ks' = k
    /\ UNCHANGED <<scheme, ct, out, last, ar, many, gal, nt, thr, lp, rl, gs, mp, cv, sq, da, tr>>

\* entry of the body of the loop over j: the counter is set to the bound and
\* the accumulators are zeroed
KeySwitchBegin ==
    /\ ks.pc = "idle"
    /\ \E decomp_mod_count \in 1..MaxDecompModCount :
       \E j \in 0..decomp_mod_count :
          LET key_index == key_index_of(j, decomp_mod_count, decomp_mod_count + 1)
          IN KeySwitchStep([KeySwitchIdle EXCEPT
                 !.op = "switch_key_inplace", !.pc = "accumulate",
                 !.decomp_mod_count = decomp_mod_count, !.j = j,
                 !.q = key_modulus_of(decomp_mod_count)[key_index + 1],
                 !.lazy_reduction_counter = lazy_reduction_summand_bound])

\* one iteration of the loop over i, for one accumulator slot
KeySwitchAccumulate ==
    /\ ks.pc = "accumulate"
    /\ ks.i < ks.decomp_mod_count
    /\ \E t_operand \in OperandValues(ks.q) :
       \E t_key \in KeyValues(ks.q) :
          KeySwitchStep([ks EXCEPT
              !.i = ks.i + 1,
              !.accumulator =
                  IF reduce_in_loop(ks.lazy_reduction_counter)
                  THEN barrett_reduce_128(add_uint128(t_operand * t_key, ks.accumulator), ks.q)
                  ELSE add_uint128(t_operand * t_key, ks.accumulator),
              !.unreduced =
                  IF reduce_in_loop(ks.lazy_reduction_counter) THEN 0 ELSE ks.unreduced + 1,
              !.reductions =
                  IF reduce_in_loop(ks.lazy_reduction_counter)
                  THEN ks.reductions + 1 ELSE ks.reductions,
              !.sum = ks.sum + t_operand * t_key,
              !.lazy_reduction_counter = next_lazy_reduction_counter(ks.lazy_reduction_counter)])

\* the final modular reduction of the slot into t_poly_prod
KeySwitchFinalReduce ==
    /\ ks.pc = "accumulate"
    /\ ks.i = ks.decomp_mod_count
    /\ KeySwitchStep([ks EXCEPT
           !.pc = "done",
           !.branch = IF copy_low_word(ks.lazy_reduction_counter) THEN "copy" ELSE "reduce",
           !.t_poly_prod =
               IF copy_low_word(ks.lazy_reduction_counter)
               THEN low_word(ks.accumulator)
               ELSE barrett_reduce_128(ks.accumulator, ks.q)])

NextKeySwitch ==
    \/ KeySwitchBegin
    \/ KeySwitchAccumulate
    \/ KeySwitchFinalReduce

SpecKeySwitch == InitKeySwitch /\ [][NextKeySwitch]_vars

(***************************************************************************)
(* Properties of SpecKeySwitch                                             *)
(***************************************************************************)
\* C26: in the accumulation loop of switch_key_inplace, once
\* lazy_reduction_summand_bound products have been added to an accumulator
\* slot since it was zeroed or reduced, the slot is Barrett-reduced before
\* another product is added: no slot ever holds more than
\* lazy_reduction_summand_bound unreduced products.
C26_LazyReductionBound ==
    (ks.op = "switch_key_inplace") => ks.unreduced <= lazy_reduction_summand_bound

\* C27: the value written to t_poly_prod for a slot is the sum of the
\* products operand_i * key_i over i in [0, decomp_mod_count), reduced
\* modulo q_{key_index}, and lies in [0, q_{key_index}); the branch that
\* copies the low word is taken only on a fully reduced accumulator.
C27_FinalReduction ==
    (ks.pc = "done")
    => /\ ks.t_poly_prod = ks.sum % ks.q
       /\ ks.t_poly_prod < ks.q
       /\ (ks.branch = "copy" => ks.accumulator < ks.q)

(***************************************************************************)
(* Lifted plaintext: RNS decomposition of the scratch buffer               *)
(***************************************************************************)
\* allocate_zero_uint(coeff_count * coeff_modulus_count, pool): word offsets
\* of the allocation
allocated_words(coeff_count, modulus_count) == 0..(coeff_count * modulus_count - 1)

\* RNSIterator(temp.get(), coeff_count) after j increments: offset of the
\* pointer handed to the call
RNSIterator_offset(step_size, j) == j * step_size

\* decompose_array(value, count, pool) of a base of `size` primes: the words
\* of `count` values of `size` words each, starting at value
decompose_array_words(value, count, size) == value..(value + count * size - 1)

\* for_each_n(..., coeff_modulus_count, ...): number of decompose_array calls
decompose_call_count(modulus_count) == modulus_count

(***************************************************************************)
(* SpecDecompose                                                           *)
(***************************************************************************)
LiftRoutines == {"multiply_plain_normal", "transform_to_ntt_inplace"}

\* polynomial degrees of the contexts tried
DecomposeCoeffCounts == {2 ^ e : e \in 0..LogDegree}

DecomposeIdle ==
    [op |-> "none", pc |-> "idle", coeff_count |-> 0, coeff_modulus_count |-> 0,
     j |-> 0, calls |-> <<>>]

InitDecompose ==
    /\ scheme \in Schemes
    /\ ct = EmptyCiphertext
    /\ out = EmptyCiphertext
    /\ last = NoCall
    /\ tr = NoTree
    /\ ar = NoArith
    /\ many = NoMany
    /\ gal = NoGalois
    /\ nt = NoTransform
    /\ thr = NoThreads
    /\ lp = NoLoop
    /\ rl = NoRelin
    /\ gs = NoGaloisSteps
    /\ mp = NoPlainMul
    /\ cv = NoConvolution
    /\ sq = NoSquare
    /\ ks = NoKeySwitch
    /\ da = DecomposeIdle

DecomposeStep(d) ==
    /\ da' = d
    /\ UNCHANGED <<scheme, ct, out, last, ar, many, gal, nt, thr, lp, rl, gs, mp, cv, sq, ks, tr>>

\* a context without using_fast_plain_lift: the scratch buffer is allocated
\* and the multi-precision lift is written into it
LiftBegin ==
    /\ da.pc = "idle"
    /\ \E routine \in LiftRoutines :
       \E coeff_count \in DecomposeCoeffCounts :
       \E modulus_count \in 1..MaxDecompModCount :
          DecomposeStep([DecomposeIdle EXCEPT
              !.op = routine, !.pc = "decompose",
              !.coeff_count = coeff_count, !.coeff_modulus_count = modulus_count])

\* one iteration of the for_each_n over RNSIterator(temp.get(), coeff_count)
DecomposeArrayCall ==
    /\ da.pc = "decompose"
    /\ da.j < decompose_call_count(da.coeff_modulus_count)
    /\ DecomposeStep([da EXCEPT
           !.j = da.j + 1,
           !.calls = Append(da.calls,
               decompose_array_words(RNSIterator_offset(da.coeff_count, da.j),
                                     da.coeff_count, da.coeff_modulus_count))])

\* the loop is over: the buffer is used as the RNS form of the plaintext
LiftEnd ==
    /\ da.pc = "decompose"
    /\ da.j = decompose_call_count(da.coeff_modulus_count)
    /\ DecomposeStep([da EXCEPT !.pc = "done"])

NextDecompose ==
    \/ LiftBegin
    \/ DecomposeArrayCall
    \/ LiftEnd

SpecDecompose == InitDecompose /\ [][NextDecompose]_vars

(***************************************************************************)
(* Properties of SpecDecompose                                             *)
(***************************************************************************)
\* C29: without using_fast_plain_lift, the lifted plaintext in the scratch
\* buffer of coeff_modulus_count * coeff_count words is decomposed exactly
\* once, as one array of coeff_count values, and every decompose_array call
\* addresses only words of that allocation.
C29_DecomposeOnceInBounds ==
    /\ \A c \in 1..Len(da.calls) :
          da.calls[c] \subseteq allocated_words(da.coeff_count, da.coeff_modulus_count)
    /\ (da.pc = "done")
       => da.calls = <<allocated_words(da.coeff_count, da.coeff_modulus_count)>>

(***************************************************************************)
(* multiply_many: multiplicative depth of the product tree                 *)
(***************************************************************************)
\* largest number of inputs of a call
MaxTreeInputs == 16

\* least k with 2^k >= n
RECURSIVE CeilLog2From(_, _)
CeilLog2From(n, k) == IF 2 ^ k >= n THEN k ELSE CeilLog2From(n, k + 1)

CeilLog2(n) == CeilLog2From(n, 0)

\* multiply(a, b, temp): temp sits one multiply step above the deeper operand
product_depth(a, b) == 1 + (IF a >= b THEN a ELSE b)

product_vec_emplace_front(product_vec, temp) == <<temp>> \o product_vec

\* product_vec.emplace_back(move(temp)) of the second loop
product_vec_emplace_back(product_vec, temp) == Append(product_vec, temp)

(***************************************************************************)
(* SpecTree                                                                *)
(***************************************************************************)
TreeIdle ==
    [op |-> "none", pc |-> "idle", n |-> 0, i |-> 0, product_vec |-> <<>>, depth |-> 0]

InitTree ==
    /\ scheme \in Schemes
    /\ ct = EmptyCiphertext
    /\ out = EmptyCiphertext
    /\ last = NoCall
    /\ ar = NoArith
    /\ many = NoMany
    /\ gal = NoGalois
    /\ nt = NoTransform
    /\ thr = NoThreads
    /\ lp = NoLoop
    /\ rl = NoRelin
    /\ gs = NoGaloisSteps
    /\ mp = NoPlainMul
    /\ cv = NoConvolution
    /\ sq = NoSquare
    /\ ks = NoKeySwitch
    /\ da = NoDecompose
    /\ tr = TreeIdle

TreeStep(t) ==
    /\ tr' = t
    /\ UNCHANGED <<scheme, ct, out, last, ar, many, gal, nt, thr, lp, rl, gs, mp, cv, sq, ks, da>>

\* a call on n valid inputs; a single input is copied to the destination
TreeBegin ==
    /\ tr.pc = "idle"
    /\ \E n \in 1..MaxTreeInputs :
          TreeStep([TreeIdle EXCEPT
              !.op = "multiply_many", !.n = n,
              !.pc = IF n = 1 THEN "done" ELSE "first_level"])

\* for (i = 0; i < encrypteds.size() - 1; i += 2): one product of two inputs
TreeFirstLevel ==
    /\ tr.pc = "first_level"
    /\ tr.i < tr.n - 1
    /\ TreeStep([tr EXCEPT
           !.i = tr.i + 2,
           !.product_vec = Append(tr.product_vec, product_depth(0, 0))])

\* end of the first loop: an odd input count leaves the last input, which is
\* appended as it is
TreeLeftover ==
    /\ tr.pc = "first_level"
    /\ tr.i >= tr.n - 1
    /\ TreeStep([tr EXCEPT
           !.pc = "product_loop", !.i = 0,
           !.product_vec = IF tr.n % 2 = 1 THEN Append(tr.product_vec, 0)
                           ELSE tr.product_vec])

\* for (i = 0; i < product_vec.size() - 1; i += 2): one product of two
\* elements of the vector, appended to the vector
TreeProductLoop ==
    /\ tr.pc = "product_loop"
    /\ tr.i < Len(tr.product_vec) - 1
    /\ TreeStep([tr EXCEPT
           !.i = product_loop_advance(tr.i),
           !.product_vec =
               product_vec_emplace_back(tr.product_vec,
                   product_depth(tr.product_vec[tr.i + 1], tr.product_vec[tr.i + 2]))])

\* destination = product_vec.back()
TreeBack ==
    /\ tr.pc = "product_loop"
    /\ tr.i >= Len(tr.product_vec) - 1
    /\ TreeStep([tr EXCEPT !.pc = "done", !.depth = tr.product_vec[Len(tr.product_vec)]])

NextTree ==
    \/ TreeBegin
    \/ TreeFirstLevel
    \/ TreeLeftover
    \/ TreeProductLoop
    \/ TreeBack

SpecTree == InitTree /\ [][NextTree]_vars

(***************************************************************************)
(* Properties of SpecTree                                                  *)
(***************************************************************************)
\* C30: for every input count n >= 1 the result of multiply_many sits
\* exactly ceil(log2 n) multiply steps above the inputs, although the later
\* levels are formed by one pass that appends to the vector it runs over.
C30_BalancedDepth ==
    (tr.pc = "done") => tr.depth = CeilLog2(tr.n)

\* seven inputs: three first-level products and the leftover input, then
\* three products appended during the pass, the last at depth 3
C30_Witness ==
    /\ tr.pc = "done"
    /\ tr.n = 7
    /\ tr.product_vec = <<1, 1, 1, 0, 2, 2, 3>>
    /\ tr.depth = 3
====
